---- MODULE Spec2Model ----
(***************************************************************************)
(* Node cache, node manager and JSON-RPC transport of                      *)
(* monerostack/mcprpc/utils.py.                                            *)
(*                                                                         *)
(* Spec        one client thread driving MCPTransport through a            *)
(*             MoneroNodeManager, with the cache's background refresh      *)
(*             thread running beside it; the calls are JSON-RPC calls.     *)
(* SpecHeight  the same, the calls being get_height calls.                 *)
(* SpecRates   the same as Spec, each call remembering the node records as *)
(*             they were when it began.                                    *)
(* SpecCache   client threads and refresh threads on the one node cache,   *)
(*             step by step, with the cache's lock; SpecCacheFair adds     *)
(*             the scheduling of the threads.                              *)
(* SpecPolicy  the cache by itself from its construction: its operations,  *)
(*             each as one step, the clock and the refresh cycle.          *)
(* SpecMarks   mark_node_failure and the refresh cycle on the hardcoded    *)
(*             list with sampled success rates.                            *)
(* SpecManager the node manager by itself: its methods, each as one step,  *)
(*             and the refresh cycle.                                      *)
(* SpecDiscovery one refresh cycle on directories of up to 22 urls.        *)
(* SpecShared  client threads calling mark_node_failure of one manager     *)
(*             they share, step by step.                                   *)
(***************************************************************************)
EXTENDS Integers, Sequences, FiniteSets, Bags, TLC

VARIABLES
    cache,      \* MoneroNodeCache: _nodes, _last_refresh, _refresh_in_progress
    cacheFile,  \* contents of CACHE_FILE on disk
    bg,         \* fetch: refresh threads started and not yet through their cycle
    gen,        \* number of node lists the refresh thread has installed
    now,        \* time.time()
    mgr,        \* MoneroNodeManager: _use_cache, nodes, _current_node, _failure_count
    tr,         \* MCPTransport: node_manager, config, _session, _request_id
    call,       \* the running MCPTransport.call: position, locals, and sent,
                \* the endpoints it has sent a request to
    conc,       \* SpecCache: the lock's holder, the threads' positions and
                \* what the last step did (acc): the fields of the cache it
                \* touched, whether its thread held the lock, the refresh
                \* cycle it completed
    last        \* SpecPolicy, SpecMarks: the last operation on the cache, what
                \* it was given, what it found and what it returned

vars == <<cache, cacheFile, bg, gen, now, mgr, tr, call, conc, last>>

----------------------------------------------------------------------------
\* Bounds of the model

MaxCalls   == 1   \* calls made on one transport
MaxRefresh == 1   \* node lists a behaviour lets the refresh thread install
MaxOps     == 5   \* cache operations the client threads of SpecCache begin
NumClients == 2   \* client threads of SpecCache

----------------------------------------------------------------------------
\* Program constants

CACHE_EXPIRY         == 3600
MIN_REFRESH_INTERVAL == 300
DaemonPort           == 18081
HttpsPort            == 443
FailureLimit         == 3

\* success_rate is a float in [0.0, 1.0]; it is kept in units of 1/RateUnit.
RateUnit == 1000000
\* response_time is kept in tenths of a second.
RateFull   == RateUnit
RateFloor  == RateUnit \div 10          \* 0.1
RateHealth == RateUnit \div 2           \* 0.5

Max2(a, b) == IF a >= b THEN a ELSE b

\* the clock when the process starts (any value above CACHE_EXPIRY: the
\* epoch is decades in the past)
StartTime == CACHE_EXPIRY + 400

----------------------------------------------------------------------------
\* URLs and MoneroRPCConfig

NoPort == 0

Url(scheme, host, port, path) ==
    [scheme |-> scheme, host |-> host, port |-> port, path |-> path]

\* MoneroRPCConfig.from_url
FromUrl(u) ==
    [scheme |-> IF u.scheme = "" THEN "http" ELSE u.scheme,
     host   |-> IF u.host = "" THEN "127.0.0.1" ELSE u.host,
     port   |-> IF u.port # NoPort THEN u.port
                ELSE IF u.scheme = "https" THEN HttpsPort ELSE DaemonPort,
     path   |-> IF u.path = "" THEN "/json_rpc" ELSE u.path]

\* MoneroRPCConfig.url (no credentials): scheme://host:port/path
ConfigUrl(c) == Url(c.scheme, c.host, c.port, c.path)

\* MoneroRPCConfig.from_environment with nothing set
DefaultConfig ==
    [scheme |-> "http", host |-> "127.0.0.1", port |-> DaemonPort, path |-> "/json_rpc"]

----------------------------------------------------------------------------
\* MoneroNode

NoNode == [name |-> "None"]

\* obj tells objects apart: the records of one installed list carry the
\* number of that list, records the cache never held carry 0.
Node(name, url, rt, tested, rate, obj) ==
    [name |-> name, url |-> url, response_time |-> rt, last_tested |-> tested,
     success_rate |-> rate, obj |-> obj]

\* dataclass __eq__: field by field
NodeEq(a, b) ==
    IF a = NoNode \/ b = NoNode THEN a = b
    ELSE /\ a.name = b.name
         /\ a.url = b.url
         /\ a.response_time = b.response_time
         /\ a.last_tested = b.last_tested
         /\ a.success_rate = b.success_rate

\* MoneroNode.to_rpc_config
ToRpcConfig(n) == FromUrl(n.url)

\* get_fallback_nodes: three fresh records
FallbackNodes(obj) ==
    << Node("Snipa's Backbone", Url("http", "node.xmrbackb.one", 18081, "/json_rpc"),
            0, 0, RateFull, obj),
       Node("Seth for Privacy", Url("https", "node.sethforprivacy.com", NoPort, "/json_rpc"),
            0, 0, RateFull, obj),
       Node("MoneroWorld", Url("http", "node.moneroworld.com", 18089, "/json_rpc"),
            0, 0, RateFull, obj) >>

Range(s) == {s[i] : i \in DOMAIN s}

Names(s) == {s[i].name : i \in DOMAIN s}

----------------------------------------------------------------------------
\* MoneroNodeCache

Healthy(nodes) == Cardinality({i \in DOMAIN nodes : nodes[i].success_rate > RateHealth})

\* a variant of Decay without the floor
DecayUnclamped(rate) == (rate * 8) \div 10

\* a variant of Decay that halves the rate
DecayHalf(rate) == Max2(RateFloor, rate \div 2)

\* a variant of Decay that takes a fifth of the full rate off
DecaySubtract(rate) == Max2(RateFloor, rate - RateFull \div 5)

\* max(0.1, success_rate * 0.8)
Decay(rate) == Max2(RateFloor, (rate * 8) \div 10)

\* weight = success_rate / max(response_time, 0.1), as numerator and
\* denominator (response_time is in tenths of a second)
WeightNum(n) == n.success_rate * 10
WeightDen(n) == Max2(n.response_time, 1)

\* a > b for the weights of a and b
Heavier(a, b) == WeightNum(a) * WeightDen(b) > WeightNum(b) * WeightDen(a)

\* _force_refresh, the flag part: the thread is started by whoever turns
\* the flag on
ForceRefresh(c) ==
    IF c.refresh_in_progress THEN c ELSE [c EXCEPT !.refresh_in_progress = TRUE]

\* a variant of RefreshIfNeeded without the minimum interval
RefreshIfNeededEager(c, t) ==
    IF /\ \/ t - c.last_refresh > CACHE_EXPIRY
          \/ c.nodes = <<>>
          \/ Healthy(c.nodes) < 2
       /\ ~c.refresh_in_progress
    THEN ForceRefresh(c)
    ELSE c

\* _refresh_if_needed at time t
RefreshIfNeeded(c, t) ==
    IF /\ \/ t - c.last_refresh > CACHE_EXPIRY
          \/ c.nodes = <<>>
          \/ Healthy(c.nodes) < 2
       /\ ~c.refresh_in_progress
       /\ t - c.last_refresh > MIN_REFRESH_INTERVAL
    THEN ForceRefresh(c)
    ELSE c

\* threads a cache operation started
Started(c, d) == IF ~c.refresh_in_progress /\ d.refresh_in_progress THEN 1 ELSE 0

\* get_random_node: the cache afterwards
RandomNodeCache(c, t) == IF c.nodes = <<>> THEN RefreshIfNeeded(c, t) ELSE c

\* a variant of RandomNodeChoices that returns a record no other outweighs
RandomNodeChoicesHeaviest(c) ==
    IF c.nodes = <<>> THEN {NoNode}
    ELSE {c.nodes[i] : i \in {j \in DOMAIN c.nodes :
                                \A k \in DOMAIN c.nodes : ~Heavier(c.nodes[k], c.nodes[j])}}

\* get_random_node: the records random.choices may return
RandomNodeChoices(c) ==
    IF c.nodes = <<>> THEN {NoNode}
    ELSE {c.nodes[i] : i \in {j \in DOMAIN c.nodes : WeightNum(c.nodes[j]) > 0}}

\* get_all_nodes
AllNodesCache(c, t) == RefreshIfNeeded(c, t)

\* index of the record mark_node_failure changes (0: none)
FirstWithUrl(nodes, url) ==
    IF \E i \in DOMAIN nodes : nodes[i].url = url
    THEN CHOOSE i \in DOMAIN nodes :
            /\ nodes[i].url = url
            /\ \A j \in 1..(i-1) : nodes[j].url # url
    ELSE 0

\* a variant of MarkNodeFailureCache that counts the healthy records before
\* it lowers the rate
MarkNodeFailureStale(c, url) ==
    LET i == FirstWithUrl(c.nodes, url)
        marked == IF i = 0 THEN c.nodes
                  ELSE [c.nodes EXCEPT ![i].success_rate = Decay(@)]
        d == [c EXCEPT !.nodes = marked]
    IN IF Healthy(c.nodes) < 2 THEN ForceRefresh(d) ELSE d

\* a variant of MarkNodeFailureCache whose loop has no break and no test of
\* the url once a record has it: it lowers every rate
MarkNodeFailureEvery(c, url) ==
    LET i == FirstWithUrl(c.nodes, url)
        marked == IF i = 0 THEN c.nodes
                  ELSE [j \in DOMAIN c.nodes |->
                           [c.nodes[j] EXCEPT !.success_rate = Decay(@)]]
        d == [c EXCEPT !.nodes = marked]
    IN IF Healthy(marked) < 2 THEN ForceRefresh(d) ELSE d

\* mark_node_failure(node_url)
MarkNodeFailureCache(c, url) ==
    LET i == FirstWithUrl(c.nodes, url)
        marked == IF i = 0 THEN c.nodes
                  ELSE [c.nodes EXCEPT ![i].success_rate = Decay(@)]
        d == [c EXCEPT !.nodes = marked]
    IN IF Healthy(marked) < 2 THEN ForceRefresh(d) ELSE d

\* the record of the cache that mark_node_failure(url) changes, seen through
\* another reference to the same object
MarkAlias(n, c, url) ==
    LET i == FirstWithUrl(c.nodes, url)
    IN IF n # NoNode /\ i # 0 /\ n.obj = c.nodes[i].obj /\ n.url = url
       THEN [n EXCEPT !.success_rate = Decay(@)]
       ELSE n

\* the manager's references after the cache's mark_node_failure(url) on c
MarkAliases(m, c, url) ==
    [m EXCEPT !.nodes = [i \in DOMAIN m.nodes |-> MarkAlias(m.nodes[i], c, url)],
              !.current = MarkAlias(m.current, c, url)]

----------------------------------------------------------------------------
\* Discovery: _fetch_and_test_nodes and _test_node_performance

CandidateCap  == 20
TopK          == 10
RateProbeWeak == (RateUnit * 3) \div 10     \* 0.3

\* f"MF-{hostname.replace('.', '-')}", with "-SSL" for https
MFName(u) ==
    CASE u.host = "p1.node" /\ u.scheme # "https" -> "MF-p1-node"
      [] u.host = "p1.node" /\ u.scheme = "https" -> "MF-p1-node-SSL"
      [] u.host = "p2.node" /\ u.scheme # "https" -> "MF-p2-node"
      [] u.host = "p2.node" /\ u.scheme = "https" -> "MF-p2-node-SSL"
      [] OTHER -> "MF-unknown"

\* the JSON-RPC URL of a directory entry
JsonRpcUrl(u) ==
    IF u.path # "" /\ u.path # "/" THEN u ELSE Url(u.scheme, u.host, u.port, "/json_rpc")

\* _test_node_performance: probe.kind is "fail" (the request raised, timed
\* out, was not 2xx or not JSON), "rpc" (a body with result or error) or
\* "json" (any other JSON body); probe.rt the measured round trip
TestNodePerformance(u, probe, stamp, obj) ==
    IF probe.kind = "fail" THEN NoNode
    ELSE Node(MFName(u), JsonRpcUrl(u), probe.rt, stamp,
              IF probe.kind = "rpc" THEN RateFull ELSE RateProbeWeak, obj)

\* list.sort(key = weight, reverse = True): stable, heaviest first
RECURSIVE InsertByWeight(_, _)
InsertByWeight(sorted, n) ==
    IF sorted = <<>> THEN <<n>>
    ELSE IF Heavier(n, Head(sorted)) THEN <<n>> \o sorted
    ELSE <<Head(sorted)>> \o InsertByWeight(Tail(sorted), n)

RECURSIVE SortByWeight(_)
SortByWeight(s) ==
    IF s = <<>> THEN <<>>
    ELSE InsertByWeight(SortByWeight(SubSeq(s, 1, Len(s) - 1)), s[Len(s)])

Prefix(s, n) == SubSeq(s, 1, IF Len(s) < n THEN Len(s) ELSE n)

\* the probed candidates kept, in the order the probes completed
RECURSIVE Tested(_, _, _, _, _)
Tested(clear, probes, order, stamp, obj) ==
    IF order = <<>> THEN <<>>
    ELSE LET i == Head(order)
             n == TestNodePerformance(clear[i], probes[i], stamp, obj)
             rest == Tested(clear, probes, Tail(order), stamp, obj)
         IN IF n # NoNode /\ n.success_rate > RateProbeWeak THEN <<n>> \o rest ELSE rest

\* a variant of FetchAndTestNodes that probes every url of the directory
FetchAndTestNodesUncapped(dir, probes, order, late, stamp, obj) ==
    LET clear == dir.clear
        Submitted(i) == i \in DOMAIN clear
    IN IF ~dir.ok \/ clear = <<>> \/ late THEN <<>>
       ELSE Prefix(SortByWeight(Tested(clear, probes, SelectSeq(order, Submitted),
                                       stamp, obj)), TopK)

\* _fetch_and_test_nodes: dir.ok is whether the directory answered with a
\* JSON document, dir.clear its clearnet list; order is the order in which
\* the probes of the directory's urls complete, those submitted being the
\* ones that count; late is whether as_completed ran out of time
FetchAndTestNodes(dir, probes, order, late, stamp, obj) ==
    LET clear == Prefix(dir.clear, CandidateCap)
        Submitted(i) == i \in DOMAIN clear
    IN IF ~dir.ok \/ clear = <<>> \/ late THEN <<>>
       ELSE Prefix(SortByWeight(Tested(clear, probes, SelectSeq(order, Submitted),
                                       stamp, obj)), TopK)

\* CACHE_FILE
NoFile      == [kind |-> "none"]
BadFile     == [kind |-> "bad"]
Snapshot(nodes, t) == [kind |-> "dict", nodes |-> nodes, timestamp |-> t]

\* a variant of Reloaded that keeps of a record what get_fallback_nodes
\* would give: the name and the url, not the measurements
ReloadedUnmeasured(nodes, obj) ==
    [i \in DOMAIN nodes |->
        [nodes[i] EXCEPT !.obj = obj, !.response_time = 0, !.last_tested = 0]]

\* pickle.load gives new objects
Reloaded(nodes, obj) == [i \in DOMAIN nodes |-> [nodes[i] EXCEPT !.obj = obj]]

\* _save_to_cache: open(CACHE_FILE, 'wb') and pickle.dump, either of which
\* may fail
SaveToCache(c, file, t, disk) ==
    CASE disk = "ok"         -> Snapshot(c.nodes, t)
      [] disk = "unwritable" -> file
      [] OTHER               -> BadFile

\* a variant of LoadFallback that does not look at the file
LoadFallbackHardcoded(c, file, obj) == [c EXCEPT !.nodes = FallbackNodes(obj)]

\* _load_fallback: the cache afterwards
LoadFallback(c, file, obj) ==
    IF file.kind = "dict"
    THEN [c EXCEPT !.nodes = Reloaded(file.nodes, obj)]
    ELSE [c EXCEPT !.nodes = FallbackNodes(obj)]

----------------------------------------------------------------------------
\* MoneroNodeManager.  Each operator gives the outcomes of one method (or of
\* the part of it between two acquisitions of the cache's lock) as a set of
\* records: m the manager afterwards, c the cache afterwards, node the
\* value returned.

Outcome(m, c, n) == [m |-> m, c |-> c, node |-> n]

\* MoneroNodeManager(nodes) with a list
StaticManager(nodes) ==
    [use_cache |-> FALSE, nodes |-> nodes, current |-> NoNode, failure_count |-> 0]

\* MoneroNodeManager() without one: the list is a copy of the cache's
CacheManager(c) ==
    [use_cache |-> TRUE, nodes |-> c.nodes, current |-> NoNode, failure_count |-> 0]

\* random.choice(self.nodes), recorded as current
ChooseFromList(m, c) ==
    {Outcome([m EXCEPT !.current = n], c, n) : n \in Range(m.nodes)}

\* a variant of GetCurrentNode without the fallback of lines 541-542: with
\* an empty list of its own it raises ValueError, that is, has no outcome
GetCurrentNodeNoFallback(m, c, t) ==
    IF m.use_cache
    THEN LET d == RandomNodeCache(c, t)
         IN UNION {IF n # NoNode
                   THEN {Outcome([m EXCEPT !.current = n], d, n)}
                   ELSE ChooseFromList(m, d) : n \in RandomNodeChoices(c)}
    ELSE ChooseFromList(m, c)

\* get_current_node
GetCurrentNode(m, c, t) ==
    IF m.use_cache
    THEN LET d == RandomNodeCache(c, t)
             own == IF m.nodes = <<>> THEN [m EXCEPT !.nodes = FallbackNodes(0)] ELSE m
         IN UNION {IF n # NoNode
                   THEN {Outcome([m EXCEPT !.current = n], d, n)}
                   ELSE ChooseFromList(own, d) : n \in RandomNodeChoices(c)}
    ELSE ChooseFromList(m, c)

\* get_next_node, first part: the current node is marked in the cache
NextNodeMark(m, c) ==
    IF m.use_cache /\ m.current # NoNode
    THEN Outcome(MarkAliases(m, c, m.current.url),
                 MarkNodeFailureCache(c, m.current.url), NoNode)
    ELSE Outcome(m, c, NoNode)

\* get_next_node, the choice from the manager's own list
NextFromList(m, c) ==
    LET available == {n \in Range(m.nodes) : ~NodeEq(n, m.current)}
    IN IF Len(m.nodes) <= 1 \/ available = {}
       THEN {Outcome(m, c, NoNode)}
       ELSE {Outcome([m EXCEPT !.current = n], c, n) : n \in available}

\* get_next_node, second part
NextNodePick(m, c, t) ==
    IF m.use_cache
    THEN LET d == RandomNodeCache(c, t)
         IN UNION {IF n # NoNode /\ ~NodeEq(n, m.current)
                   THEN {Outcome([m EXCEPT !.current = n], d, n)}
                   ELSE NextFromList(m, d) : n \in RandomNodeChoices(c)}
    ELSE NextFromList(m, c)

\* a variant of ResetToRandomNode that first marks the current node failed,
\* as get_next_node does
ResetToRandomNodeMarking(m, c, t) ==
    LET marked == NextNodeMark(m, c)
    IN IF m.use_cache
       THEN {Outcome([marked.m EXCEPT !.current = n], RandomNodeCache(marked.c, t), n) :
                n \in RandomNodeChoices(marked.c)}
       ELSE ChooseFromList(m, c)

\* reset_to_random_node
ResetToRandomNode(m, c, t) ==
    IF m.use_cache
    THEN {Outcome([m EXCEPT !.current = n], RandomNodeCache(c, t), n) :
             n \in RandomNodeChoices(c)}
    ELSE ChooseFromList(m, c)

\* mark_node_failure, first part: the cache's mark_node_failure
MarkFailureInCache(m, c, url) ==
    IF m.use_cache
    THEN Outcome(MarkAliases(m, c, url), MarkNodeFailureCache(c, url), NoNode)
    ELSE Outcome(m, c, NoNode)

\* a variant of MarkFailureCount that forces the refresh when the counter
\* reaches 3
MarkFailureCountAtLimit(m, c) ==
    IF m.failure_count + 1 >= FailureLimit
    THEN Outcome([m EXCEPT !.failure_count = 0],
                 IF m.use_cache THEN ForceRefresh(c) ELSE c, NoNode)
    ELSE Outcome([m EXCEPT !.failure_count = @ + 1], c, NoNode)

\* mark_node_failure, second part: the counter and the forced refresh
MarkFailureCount(m, c) ==
    IF m.failure_count + 1 > FailureLimit
    THEN Outcome([m EXCEPT !.failure_count = 0],
                 IF m.use_cache THEN ForceRefresh(c) ELSE c, NoNode)
    ELSE Outcome([m EXCEPT !.failure_count = @ + 1], c, NoNode)

----------------------------------------------------------------------------
\* Inputs

\* the directory of monero.fail: unreachable, or listing one node
Directories ==
    { [ok |-> FALSE, clear |-> <<>>],
      [ok |-> TRUE,  clear |-> << Url("https", "p2.node", NoPort, "/") >>] }

ProbeResults ==
    { [kind |-> "fail", rt |-> 0], [kind |-> "rpc", rt |-> 2], [kind |-> "json", rt |-> 2] }

\* the refresh cycles of Spec: each probe fails or answers with an RPC
\* body, the probes complete in the order of the directory, and the
\* snapshot is written
SpecProbes(dir) ==
    {p \in [DOMAIN dir.clear -> ProbeResults] :
        \A i \in DOMAIN dir.clear : p[i].kind # "json"}

SpecOrders(n) == {[i \in 1..n |-> i]}

SpecDisk == {"ok"}

SpecFiles == {NoFile}

Orders(n) == {o \in [1..n -> 1..n] : \A i, j \in 1..n : i # j => o[i] # o[j]}

\* a snapshot a previous run of the program left on disk
OldSnapshot ==
    Snapshot(<< Node("MF-p1-node", Url("http", "p1.node", 18089, "/json_rpc"),
                     2, 1, RateFull, 0) >>, 1)

\* the lists a client may hand to MoneroNodeManager
StaticLists == {Prefix(FallbackNodes(0), k) : k \in 1..3}

\* the RPC methods: get_height is the one with a REST-style GET
Methods == {"get_info", "get_height"}

FailureKinds == {"timeout", "connection", "http", "request"}

\* what the POST of one attempt ends in
PostResults == FailureKinds \cup {"ok", "rpc_error", "bad_json"}

\* the error member of a JSON-RPC error envelope; "absent" marks a key the
\* envelope does not hold
Envelopes ==
    { [code |-> "-1", message |-> "denied", data |-> "absent"],
      [code |-> "absent", message |-> "absent", data |-> "details"] }

\* MoneroRPCError(error_msg, error_code, error_data)
RpcError(env) ==
    [message |-> IF env.message = "absent" THEN "Unknown RPC error" ELSE env.message,
     error_code |-> IF env.code = "absent" THEN "None" ELSE env.code,
     error_data |-> IF env.data = "absent" THEN "None" ELSE env.data]

NoError == [message |-> "", error_code |-> "None", error_data |-> "None"]

\* no error member was received
NoReply == [code |-> "absent", message |-> "absent", data |-> "absent"]

----------------------------------------------------------------------------
\* State

NoManager == [use_cache |-> FALSE, nodes |-> <<>>, current |-> NoNode, failure_count |-> 0]

\* the lock's holder: nobody, a client thread, a refresh thread
NoHolder == [kind |-> "none", id |-> 0]
Client(t) == [kind |-> "client", id |-> t]
Refresher(i) == [kind |-> "refresh", id |-> i]

\* no field of the cache was touched
NoAccess == [fields |-> {}, held |-> TRUE, cycle |-> ""]

\* no thread of SpecCache exists
NoThreads ==
    [lock |-> NoHolder, th |-> <<>>, rf |-> {}, spawned |-> 0, ops |-> 0, acc |-> NoAccess]

\* what the GET of get_height ends in: the body is returned, or the request
\* times out or raises another RequestException, or the status is not 2xx,
\* or the body is not JSON
RestResults == {"ok", "timeout", "request", "http", "bad_json"}

\* rest_url = self.config.url.replace('/json_rpc', '/getheight')
RestUrl(c) ==
    Url(c.scheme, c.host, c.port, IF c.path = "/json_rpc" THEN "/getheight" ELSE c.path)

\* a variant of RestCaught whose except clause names RequestException alone
RestCaughtRequestOnly(rest) == rest \in FailureKinds

\* except (requests.RequestException, ValueError): raise_for_status raises
\* HTTPError, a RequestException; response.json() raises a ValueError
RestCaught(rest) == rest \in FailureKinds \cup {"bad_json"}

\* no GET was made
NoRest == [url |-> Url("", "", NoPort, ""), result |-> ""]

\* no call is running.  rest is the GET of the last attempt: the url it
\* went to and whether it failed
Idle ==
    [pc |-> "idle", method |-> "", retry |-> TRUE, tried |-> {}, name |-> "",
     sent |-> EmptyBag, outcome |-> "", reply |-> NoReply, result |-> "",
     error |-> NoError, known |-> {}, before |-> <<>>, rest |-> NoRest]

\* the call has begun and has neither returned nor raised
Running ==
    call.pc \in {"attempt", "mark_failure", "mark_count", "try_next", "next_pick",
                 "reroll", "reset", "reconfig"}

\* the node records a manager's clients are served from
Records(m, c) == IF m.use_cache THEN c.nodes ELSE m.nodes

\* the names of the nodes the manager knows
Known(m, c) == IF m.use_cache THEN Names(c.nodes) \cup Names(m.nodes) ELSE Names(m.nodes)

\* the running call cl, having seen the nodes of m and c
Seen(cl, m, c) == [cl EXCEPT !.known = @ \cup Known(m, c)]

\* a variant of AfterPost in which an error envelope counts as a failure of
\* the node
AfterPostRetried(post, has_manager) ==
    CASE post = "ok"        -> IF has_manager THEN [pc |-> "reset", result |-> ""]
                               ELSE [pc |-> "done", result |-> "ok"]
      [] post = "bad_json"  -> [pc |-> "done", result |-> "invalid_json"]
      [] OTHER              -> IF has_manager THEN [pc |-> "mark_failure", result |-> ""]
                               ELSE [pc |-> "done", result |-> "failed"]

\* a variant of Untried in which the call forgets the names it tried
UntriedAlways(name, tried) == TRUE

\* current_node_name not in tried_nodes
Untried(name, tried) == name \notin tried

\* where the loop body goes after the POST ended as post
AfterPost(post, has_manager) ==
    CASE post = "ok"        -> IF has_manager THEN [pc |-> "reset", result |-> ""]
                               ELSE [pc |-> "done", result |-> "ok"]
      [] post = "rpc_error" -> [pc |-> "done", result |-> "rpc_error"]
      [] post = "bad_json"  -> [pc |-> "done", result |-> "invalid_json"]
      [] OTHER              -> IF has_manager THEN [pc |-> "mark_failure", result |-> ""]
                               ELSE [pc |-> "done", result |-> "failed"]

\* the url of no node
NoUrl == Url("", "", NoPort, "")

\* no operation on the cache has been made.  kind, url, ret, started, how,
\* prev and gap tell of the last operation: the method, the url it was
\* given, the name of the record it returned, whether it started a refresh
\* thread, how the refresh cycle went, the success_rate the marked record
\* had, the time since the refresh check last started a thread.  empty,
\* expired, recent, weak and inflight are what the operation found; weak_after
\* what it left.  The other fields last: check_start the time the refresh
\* check last started a thread, ticks and marks the clock steps and the
\* marks counted,
\* streak the marks made in a row on url, initial the success_rate at the
\* beginning of the streak.  For the manager's methods node is the record
\* returned, nexts the calls of get_next_node.  written is the node list of
\* the snapshot this cache last wrote, if it is still on disk, input what
\* the directory and the probes of SpecDiscovery answer, and forced the calls
\* of _force_refresh the manager of SpecShared made.
NoOp ==
    [kind |-> "", url |-> NoUrl, ret |-> "", started |-> FALSE, how |-> "",
     prev |-> 0, gap |-> -1,
     empty |-> FALSE, expired |-> FALSE, recent |-> FALSE, weak |-> FALSE,
     inflight |-> FALSE, weak_after |-> FALSE,
     check_start |-> 0, ticks |-> 0, marks |-> 0,
     streak |-> 0, initial |-> 0,
     node |-> NoNode, nexts |-> 0, written |-> <<>>, input |-> <<>>, forced |-> 0]

Init ==
    /\ cache = [nodes |-> <<>>, last_refresh |-> 0, refresh_in_progress |-> FALSE]
    /\ cacheFile \in SpecFiles
    /\ bg = [fetch |-> 0]
    /\ gen = 0
    /\ now = StartTime
    /\ mgr = NoManager
    /\ tr = [node_manager |-> FALSE, config |-> DefaultConfig, session |-> FALSE,
             request_id |-> 0]
    /\ call = [Idle EXCEPT !.pc = "import"]
    /\ conc = NoThreads
    /\ last = NoOp

\* the cache becomes c; the thread _force_refresh started, if any, begins
SetCache(c) ==
    /\ cache' = c
    /\ bg' = [bg EXCEPT !.fetch = @ + Started(cache, c)]

\* the call ends: it returns (result "ok") or raises
Finish(result, m, c) ==
    call' = Seen([call EXCEPT !.pc = "done", !.outcome = "", !.result = result], m, c)

----------------------------------------------------------------------------
\* Start-up

\* importing the module: DEFAULT_MONERO_NODES = load_nodes_from_config()
ModuleImport ==
    /\ call.pc = "import"
    /\ UNCHANGED <<conc, last>>
    /\ SetCache(AllNodesCache(cache, now))
    /\ call' = [call EXCEPT !.pc = "import_again"]
    /\ UNCHANGED <<cacheFile, gen, now, mgr, tr>>

\* the end of the module: DEFAULT_MONERO_NODES = _load_default_nodes()
ModuleImportAgain ==
    /\ call.pc = "import_again"
    /\ UNCHANGED <<conc, last>>
    /\ SetCache(AllNodesCache(cache, now))
    /\ call' = [call EXCEPT !.pc = "new"]
    /\ UNCHANGED <<cacheFile, gen, now, mgr, tr>>

\* MoneroNodeManager(nodes)
NewManager ==
    /\ call.pc = "new"
    /\ UNCHANGED <<conc, last>>
    /\ \/ /\ \E nodes \in StaticLists : mgr' = StaticManager(nodes)
          /\ UNCHANGED <<cache, bg>>
       \/ /\ mgr' = CacheManager(cache)
          /\ SetCache(AllNodesCache(cache, now))
    /\ call' = [call EXCEPT !.pc = "transport"]
    /\ UNCHANGED <<cacheFile, gen, now, tr>>

\* MCPTransport(node_manager = manager)
NewTransport ==
    /\ call.pc = "transport"
    /\ UNCHANGED <<conc, last>>
    /\ \E o \in GetCurrentNode(mgr, cache, now) :
          /\ mgr' = o.m
          /\ SetCache(o.c)
          /\ tr' = [tr EXCEPT !.node_manager = TRUE, !.config = ToRpcConfig(o.node)]
    /\ call' = [call EXCEPT !.pc = "idle"]
    /\ UNCHANGED <<cacheFile, gen, now>>

\* MCPTransport(config) without a manager
NewPlainTransport ==
    /\ call.pc = "new"
    /\ UNCHANGED <<conc, last>>
    /\ call' = [call EXCEPT !.pc = "idle"]
    /\ UNCHANGED <<cache, cacheFile, bg, gen, now, mgr, tr>>

----------------------------------------------------------------------------
\* MCPTransport.call

\* entry: the request id, tried_nodes and current_node_name
CallOf(methods, track) ==
    /\ call.pc = "idle"
    /\ UNCHANGED <<conc, last>>
    /\ tr.request_id < MaxCalls
    /\ tr' = [tr EXCEPT !.request_id = @ + 1]
    /\ \E method \in methods, retry \in BOOLEAN :
          IF tr.node_manager
          THEN \E o \in GetCurrentNode(mgr, cache, now) :
                  /\ mgr' = o.m
                  /\ SetCache(o.c)
                  /\ call' = [Idle EXCEPT !.pc = "attempt", !.method = method,
                                           !.retry = retry, !.name = o.node.name,
                                           !.known = Known(o.m, o.c),
                                           !.before = IF track THEN Records(o.m, o.c)
                                                      ELSE <<>>]
          ELSE /\ call' = [Idle EXCEPT !.pc = "attempt", !.method = method,
                                        !.retry = retry, !.name = "default"]
               /\ UNCHANGED <<mgr, cache, bg>>
    /\ UNCHANGED <<cacheFile, gen, now>>

\* a call of a method that goes by JSON-RPC alone
CallStart == CallOf(Methods \ {"get_height"}, FALSE)

\* a call of get_height
CallHeight == CallOf({"get_height"}, FALSE)

\* a JSON-RPC call that remembers the node records it began with
CallRates == CallOf(Methods \ {"get_height"}, TRUE)

\* one pass of the loop body up to the end of the try block: the GET of
\* get_height (rest) and the POST (post) with its answer
Attempt ==
    /\ call.pc = "attempt"
    /\ UNCHANGED <<conc, last>>
    /\ tr' = [tr EXCEPT !.session = TRUE]
    /\ LET c1 == [call EXCEPT !.tried = @ \cup {call.name},
                              !.sent = @ (+) SetToBag({ConfigUrl(tr.config)})]
           got(rest) == IF call.method = "get_height"
                        THEN [url |-> RestUrl(tr.config),
                              result |-> IF rest = "ok" THEN "ok" ELSE "failed"]
                        ELSE NoRest
           gets == IF call.method = "get_height" THEN RestResults ELSE {"ok"}
           answers(post) == IF post = "rpc_error" THEN Envelopes ELSE {NoReply}
       IN \E rest \in gets :
            IF call.method = "get_height" /\ rest = "ok"
            THEN call' = [c1 EXCEPT !.pc = "done", !.outcome = "rest", !.result = "ok",
                                    !.rest = got(rest)]
            ELSE IF call.method = "get_height" /\ ~RestCaught(rest)
            THEN call' = [c1 EXCEPT !.pc = "done", !.outcome = "rest",
                                    !.result = "raised", !.rest = got(rest)]
            ELSE \E post \in PostResults : \E env \in answers(post) :
                    LET after == AfterPost(post, tr.node_manager)
                    IN call' = [c1 EXCEPT !.pc = after.pc, !.outcome = post,
                                          !.rest = got(rest),
                                          !.result = after.result,
                                          !.reply = env,
                                          !.error = IF post = "rpc_error" THEN RpcError(env)
                                                    ELSE NoError]
    /\ UNCHANGED <<cache, cacheFile, bg, gen, now, mgr>>

\* except clauses: node_manager.mark_node_failure(self.config.url), the
\* cache's part
MarkFailure ==
    /\ call.pc = "mark_failure"
    /\ UNCHANGED <<conc, last>>
    /\ LET o == MarkFailureInCache(mgr, cache, ConfigUrl(tr.config))
       IN /\ mgr' = o.m
          /\ SetCache(o.c)
    /\ call' = [call EXCEPT !.pc = "mark_count", !.outcome = "", !.rest = NoRest]
    /\ UNCHANGED <<cacheFile, gen, now, tr>>

\* mark_node_failure, the counter
MarkCount ==
    /\ call.pc = "mark_count"
    /\ UNCHANGED <<conc, last>>
    /\ LET o == MarkFailureCount(mgr, cache)
       IN /\ mgr' = o.m
          /\ SetCache(o.c)
    /\ call' = [call EXCEPT !.pc = "try_next"]
    /\ UNCHANGED <<cacheFile, gen, now, tr>>

\* a variant of AsksNextNode that ignores retry_on_other_nodes
AsksNextNodeAlways(retry) == TRUE

\* whether line 845 calls _try_next_node: `and` evaluates it only when
\* retry_on_other_nodes is true
AsksNextNode(retry) == retry

\* retry_on_other_nodes and self._try_next_node(): get_next_node begins
TryNextNode ==
    /\ call.pc = "try_next"
    /\ UNCHANGED <<conc, last>>
    /\ IF AsksNextNode(call.retry)
       THEN /\ LET o == NextNodeMark(mgr, cache)
               IN /\ mgr' = o.m
                  /\ SetCache(o.c)
            /\ call' = [call EXCEPT !.pc = "next_pick"]
       ELSE /\ Finish("failed", mgr, cache)
            /\ UNCHANGED <<mgr, cache, bg>>
    /\ UNCHANGED <<cacheFile, gen, now, tr>>

\* get_next_node ends and _try_next_node takes the node it returned
NextPick ==
    /\ call.pc = "next_pick"
    /\ UNCHANGED <<conc, last>>
    /\ \E o \in NextNodePick(mgr, cache, now) :
          /\ mgr' = o.m
          /\ SetCache(o.c)
          /\ IF o.node # NoNode
             THEN /\ tr' = [tr EXCEPT !.config = ToRpcConfig(o.node), !.session = FALSE]
                  /\ call' = Seen([call EXCEPT !.pc = "reroll"], o.m, o.c)
             ELSE /\ Finish("failed", o.m, o.c)
                  /\ UNCHANGED tr
    /\ UNCHANGED <<cacheFile, gen, now>>

\* current_node_name = self.node_manager.get_current_node().name and the
\* test against tried_nodes
Reroll ==
    /\ call.pc = "reroll"
    /\ UNCHANGED <<conc, last>>
    /\ \E o \in GetCurrentNode(mgr, cache, now) :
          /\ mgr' = o.m
          /\ SetCache(o.c)
          /\ IF Untried(o.node.name, call.tried)
             THEN call' = Seen([call EXCEPT !.pc = "attempt", !.name = o.node.name],
                               o.m, o.c)
             ELSE call' = Seen([call EXCEPT !.pc = "done", !.name = o.node.name,
                                            !.result = "failed"], o.m, o.c)
    /\ UNCHANGED <<cacheFile, gen, now, tr>>

\* success: self.node_manager.reset_to_random_node()
Reset ==
    /\ call.pc = "reset"
    /\ UNCHANGED <<conc, last>>
    /\ \E o \in ResetToRandomNode(mgr, cache, now) :
          /\ mgr' = o.m
          /\ SetCache(o.c)
    /\ call' = [call EXCEPT !.pc = "reconfig", !.outcome = "", !.rest = NoRest]
    /\ UNCHANGED <<cacheFile, gen, now, tr>>

\* success: self.config = get_current_node().to_rpc_config(), the session
\* is closed and the result returned
Reconfigure ==
    /\ call.pc = "reconfig"
    /\ UNCHANGED <<conc, last>>
    /\ \E o \in GetCurrentNode(mgr, cache, now) :
          /\ mgr' = o.m
          /\ SetCache(o.c)
          /\ tr' = [tr EXCEPT !.config = ToRpcConfig(o.node), !.session = FALSE]
          /\ Finish("ok", o.m, o.c)
    /\ UNCHANGED <<cacheFile, gen, now>>

\* the caller has the result or the exception
Return ==
    /\ call.pc = "done"
    /\ UNCHANGED <<conc, last>>
    /\ call' = Idle
    /\ UNCHANGED <<cache, cacheFile, bg, gen, now, mgr, tr>>

----------------------------------------------------------------------------
\* The background refresh thread

\* a variant of Swaps that installs whatever the fetch returned
SwapsAlways(new_nodes) == TRUE

\* if new_nodes: the list fetched is installed when it holds a record
Swaps(new_nodes) == new_nodes # <<>>

\* _background_refresh, try block: the fetch and the probes, then the swap
\* and the save, or the fallback.  The cache afterwards and the file.
RefreshOutcomes(c, file, t, stamp, obj, dirs, disks) ==
    UNION { UNION { { LET new_nodes == FetchAndTestNodes(dir, probes, order, late, stamp, obj)
                          swapped == [c EXCEPT !.nodes = new_nodes, !.last_refresh = t]
                      IN IF Swaps(new_nodes)
                         THEN [c |-> swapped, file |-> SaveToCache(swapped, file, t, disk)]
                         ELSE [c |-> LoadFallback(c, file, obj), file |-> file] :
                      probes \in SpecProbes(dir), order \in SpecOrders(Len(dir.clear)) } :
                    late \in BOOLEAN, disk \in disks } :
            dir \in dirs }

\* one cycle of _background_refresh, from the list it installs to the
\* finally clause that turns the flag off.  A client that was given its own
\* list never reads the cache, and the cycle is not followed for it.
RefreshCycle ==
    /\ bg.fetch > 0
    /\ UNCHANGED <<conc, last>>
    /\ gen < MaxRefresh
    /\ call.pc \in {"import_again", "new", "transport"} \/ mgr.use_cache
    /\ gen' = gen + 1
    /\ bg' = [bg EXCEPT !.fetch = @ - 1]
    /\ \E o \in RefreshOutcomes(cache, cacheFile, now, gen' + 1, gen', Directories, SpecDisk) :
          /\ cache' = [o.c EXCEPT !.refresh_in_progress = FALSE]
          /\ cacheFile' = o.file
    /\ call' = IF Running THEN Seen(call, mgr, cache') ELSE call
    /\ UNCHANGED <<now, mgr, tr>>

Next ==
    \/ ModuleImport
    \/ ModuleImportAgain
    \/ NewManager
    \/ NewTransport
    \/ NewPlainTransport
    \/ CallStart
    \/ Attempt
    \/ MarkFailure
    \/ MarkCount
    \/ TryNextNode
    \/ NextPick
    \/ Reroll
    \/ Reset
    \/ Reconfigure
    \/ Return
    \/ RefreshCycle

Spec == Init /\ [][Next]_vars

\* the same client calling get_height
NextHeight ==
    \/ ModuleImport
    \/ ModuleImportAgain
    \/ NewManager
    \/ NewTransport
    \/ NewPlainTransport
    \/ CallHeight
    \/ Attempt
    \/ MarkFailure
    \/ MarkCount
    \/ TryNextNode
    \/ NextPick
    \/ Reroll
    \/ Reset
    \/ Reconfigure
    \/ Return
    \/ RefreshCycle

SpecHeight == Init /\ [][NextHeight]_vars

\* the same client, its calls remembering the records they began with
NextRates ==
    \/ ModuleImport
    \/ ModuleImportAgain
    \/ NewManager
    \/ NewTransport
    \/ NewPlainTransport
    \/ CallRates
    \/ Attempt
    \/ MarkFailure
    \/ MarkCount
    \/ TryNextNode
    \/ NextPick
    \/ Reroll
    \/ Reset
    \/ Reconfigure
    \/ Return
    \/ RefreshCycle

SpecRates == Init /\ [][NextRates]_vars

----------------------------------------------------------------------------
\* The cache under several threads.  A client thread runs the cache's
\* operations, or mark_node_failure of its own cache-backed manager; every
\* thread _force_refresh starts runs _background_refresh.

Clients == 1..NumClients

\* the url the clients report failures of
MarkUrl == Url("http", "node.xmrbackb.one", 18081, "/json_rpc")

\* a client thread between two operations
IdleClient == [pc |-> "idle", via_manager |-> FALSE, failure_count |-> 0]

\* refresh thread number i, just started
NewRefresher(i) == [id |-> i, pc |-> "fetch", new_nodes |-> <<>>, file |-> NoFile, how |-> ""]

\* thread who touches fields of the cache
Access(who, fields) == [fields |-> fields, held |-> conc.lock = who, cycle |-> ""]

\* a cache operation took the cache from c to d: the threads afterwards
Spawn(rf, n, c, d) == IF Started(c, d) = 1 THEN rf \cup {NewRefresher(n + 1)} ELSE rf

\* refresh thread r is now at q
Moved(rf, r, q) == (rf \ {r}) \cup {q}

\* a variant of FlagAfterCycle in which the flag is cleared at the end of
\* the try block and not in a finally clause
FlagLeftOnRaise(how) == how = "raised"

\* the value the finally clause leaves in _refresh_in_progress
FlagAfterCycle(how) == FALSE

\* the module has been imported: the cache is built and get_all_nodes has
\* started the first refresh thread
InitCache ==
    /\ cache = AllNodesCache([nodes |-> <<>>, last_refresh |-> 0,
                              refresh_in_progress |-> FALSE], StartTime)
    /\ cacheFile \in SpecFiles
    /\ bg = [fetch |-> 0]
    /\ gen = 0
    /\ now = StartTime
    /\ mgr = NoManager
    /\ tr = [node_manager |-> FALSE, config |-> DefaultConfig, session |-> FALSE,
             request_id |-> 0]
    /\ call = Idle
    /\ conc = [lock |-> NoHolder, th |-> [t \in Clients |-> IdleClient],
               rf |-> {NewRefresher(1)}, spawned |-> 1, ops |-> 0, acc |-> NoAccess]
    /\ last = NoOp

\* with self._lock: of get_random_node, get_all_nodes or mark_node_failure,
\* the last one called directly or by the manager's mark_node_failure
Acquire ==
    /\ conc.ops < MaxOps
    /\ conc.lock = NoHolder
    /\ \E t \in Clients, op \in {"random", "all", "mark", "manager_mark"} :
          /\ conc.th[t].pc = "idle"
          /\ conc' = [conc EXCEPT !.lock = Client(t),
                                  !.ops = @ + 1,
                                  !.acc = NoAccess,
                                  !.th[t].pc = IF op = "manager_mark" THEN "mark" ELSE op,
                                  !.th[t].via_manager = (op = "manager_mark")]
    /\ UNCHANGED <<cache, cacheFile, bg, gen, now, mgr, tr, call, last>>

\* a variant of Reacquires in which _save_to_cache has a with self._lock:
\* of its own
ReacquiresInSave(method) == method = "_save_to_cache"

\* whether method, called inside a with self._lock: block, enters
\* with self._lock: itself.  threading.Lock is not reentrant: the thread
\* would wait for itself.  _refresh_if_needed, _force_refresh and
\* _save_to_cache take no lock
Reacquires(method) == FALSE

\* a variant of LockAfter in which _force_refresh runs _background_refresh
\* itself and not in a thread of its own
LockAfterInline(who, c, d) == IF Started(c, d) = 1 THEN who ELSE NoHolder

\* the lock at the end of a with block of thread who that took the cache
\* from c to d: released, the thread _force_refresh started being on its own
LockAfter(who, c, d) == NoHolder

\* the body of a locked operation of client t, which takes the cache to d
\* and leaves the client at pc
Locked(t, d, pc) ==
    /\ conc.lock = Client(t)
    /\ ~Reacquires("_refresh_if_needed") /\ ~Reacquires("_force_refresh")
    /\ cache' = d
    /\ conc' = [conc EXCEPT !.lock = LockAfter(Client(t), cache, d),
                            !.rf = Spawn(@, conc.spawned, cache, d),
                            !.spawned = @ + Started(cache, d),
                            !.acc = Access(Client(t), {"nodes", "last_refresh", "flag"}),
                            !.th[t].pc = pc,
                            !.th[t].via_manager = (pc = "count")]
    /\ UNCHANGED <<cacheFile, bg, gen, now, mgr, tr, call, last>>

\* get_random_node under the lock
LockedRandomNode ==
    \E t \in Clients :
       /\ conc.th[t].pc = "random"
       /\ Locked(t, RandomNodeCache(cache, now), "idle")

\* get_all_nodes under the lock
LockedAllNodes ==
    \E t \in Clients :
       /\ conc.th[t].pc = "all"
       /\ Locked(t, AllNodesCache(cache, now), "idle")

\* the cache's mark_node_failure under the lock
LockedMark ==
    \E t \in Clients :
       /\ conc.th[t].pc = "mark"
       /\ Locked(t, MarkNodeFailureCache(cache, MarkUrl),
                 IF conc.th[t].via_manager THEN "count" ELSE "idle")

\* the manager's mark_node_failure: self._failure_count += 1 and the test
CountFailure ==
    /\ \E t \in Clients :
          /\ conc.th[t].pc = "count"
          /\ conc' = [conc EXCEPT !.acc = NoAccess,
                                  !.th[t].via_manager = FALSE,
                                  !.th[t].failure_count = @ + 1,
                                  !.th[t].pc = IF conc.th[t].failure_count + 1 > FailureLimit
                                               THEN "force" ELSE "idle"]
    /\ UNCHANGED <<cache, cacheFile, bg, gen, now, mgr, tr, call, last>>

\* _node_cache._force_refresh() called by the manager, the test of the flag
UnlockedRead ==
    /\ \E t \in Clients :
          /\ conc.th[t].pc = "force"
          /\ conc' = IF cache.refresh_in_progress
                     THEN [conc EXCEPT !.acc = Access(Client(t), {"flag"}),
                                       !.th[t].failure_count = 0,
                                       !.th[t].pc = "idle"]
                     ELSE [conc EXCEPT !.acc = Access(Client(t), {"flag"}),
                                       !.th[t].pc = "force_set"]
    /\ UNCHANGED <<cache, cacheFile, bg, gen, now, mgr, tr, call, last>>

\* the same call: the flag is set and the thread started; the manager then
\* clears its counter
UnlockedSet ==
    /\ \E t \in Clients :
          /\ conc.th[t].pc = "force_set"
          /\ conc' = [conc EXCEPT !.acc = Access(Client(t), {"flag"}),
                                  !.rf = @ \cup {NewRefresher(conc.spawned + 1)},
                                  !.spawned = @ + 1,
                                  !.th[t].failure_count = 0,
                                  !.th[t].pc = "idle"]
    /\ cache' = [cache EXCEPT !.refresh_in_progress = TRUE]
    /\ UNCHANGED <<cacheFile, bg, gen, now, mgr, tr, call, last>>

\* _background_refresh: _fetch_and_test_nodes returns a list, or the try
\* block raises
Fetch ==
    /\ \E r \in conc.rf :
          /\ r.pc = "fetch"
          /\ \E dir \in Directories, raised \in BOOLEAN :
             \E probes \in SpecProbes(dir), order \in SpecOrders(Len(dir.clear)) :
                LET new_nodes == FetchAndTestNodes(dir, probes, order, FALSE, r.id + 1, r.id)
                    how == IF raised THEN "raised"
                           ELSE IF Swaps(new_nodes) THEN "nodes" ELSE "empty"
                    q == [r EXCEPT !.how = how,
                                   !.new_nodes = IF how = "nodes" THEN new_nodes ELSE <<>>,
                                   !.pc = IF how = "nodes" THEN "swap" ELSE "fallback"]
                IN conc' = [conc EXCEPT !.acc = NoAccess, !.rf = Moved(@, r, q)]
    /\ UNCHANGED <<cache, cacheFile, bg, gen, now, mgr, tr, call, last>>

\* with self._lock: of _background_refresh or, after the file was read, of
\* _load_fallback
RefreshAcquire ==
    /\ conc.lock = NoHolder
    /\ \E r \in conc.rf :
          /\ r.pc \in {"swap", "fallback"}
          /\ LET q == [r EXCEPT !.file = IF r.pc = "fallback" THEN cacheFile ELSE NoFile,
                                !.pc = IF r.pc = "swap" THEN "swap_locked"
                                       ELSE "fallback_locked"]
             IN conc' = [conc EXCEPT !.lock = Refresher(r.id),
                                     !.acc = NoAccess,
                                     !.rf = Moved(@, r, q)]
    /\ UNCHANGED <<cache, cacheFile, bg, gen, now, mgr, tr, call, last>>

\* the swap: _nodes, _last_refresh and _save_to_cache under the lock
Install ==
    /\ \E r \in conc.rf, disk \in SpecDisk :
          /\ r.pc = "swap_locked"
          /\ conc.lock = Refresher(r.id)
          /\ ~Reacquires("_save_to_cache")
          /\ LET swapped == [cache EXCEPT !.nodes = r.new_nodes, !.last_refresh = now]
             IN /\ cache' = swapped
                /\ cacheFile' = SaveToCache(swapped, cacheFile, now, disk)
          /\ conc' = [conc EXCEPT !.lock = NoHolder,
                                  !.acc = Access(Refresher(r.id), {"nodes", "last_refresh"}),
                                  !.rf = Moved(@, r, [r EXCEPT !.new_nodes = <<>>,
                                                               !.pc = "finally"])]
    /\ UNCHANGED <<bg, gen, now, mgr, tr, call, last>>

\* _load_fallback: _nodes under the lock
Fallback ==
    /\ \E r \in conc.rf :
          /\ r.pc = "fallback_locked"
          /\ conc.lock = Refresher(r.id)
          /\ cache' = LoadFallback(cache, r.file, r.id)
          /\ conc' = [conc EXCEPT !.lock = NoHolder,
                                  !.acc = Access(Refresher(r.id), {"nodes"}),
                                  !.rf = Moved(@, r, [r EXCEPT !.file = NoFile,
                                                               !.pc = "finally"])]
    /\ UNCHANGED <<cacheFile, bg, gen, now, mgr, tr, call, last>>

\* finally: self._refresh_in_progress = False, and the thread ends
Finally ==
    /\ \E r \in conc.rf :
          /\ r.pc = "finally"
          /\ cache' = [cache EXCEPT !.refresh_in_progress = FlagAfterCycle(r.how)]
          /\ conc' = [conc EXCEPT !.acc = [Access(Refresher(r.id), {"flag"})
                                             EXCEPT !.cycle = r.how],
                                  !.rf = @ \ {r}]
    /\ UNCHANGED <<cacheFile, bg, gen, now, mgr, tr, call, last>>

\* a step of a client thread that holds the lock or is inside the manager
ClientStep ==
    \/ LockedRandomNode
    \/ LockedAllNodes
    \/ LockedMark
    \/ CountFailure
    \/ UnlockedRead
    \/ UnlockedSet

\* a step of a refresh thread
RefreshStep ==
    \/ Fetch
    \/ RefreshAcquire
    \/ Install
    \/ Fallback
    \/ Finally

NextCache ==
    \/ Acquire
    \/ LockedRandomNode
    \/ LockedAllNodes
    \/ LockedMark
    \/ CountFailure
    \/ UnlockedRead
    \/ UnlockedSet
    \/ Fetch
    \/ RefreshAcquire
    \/ Install
    \/ Fallback
    \/ Finally

SpecCache == InitCache /\ [][NextCache]_vars

\* every thread that can take a step is scheduled
SpecCacheFair ==
    /\ InitCache
    /\ [][NextCache]_vars
    /\ WF_vars(ClientStep)
    /\ WF_vars(RefreshStep)

----------------------------------------------------------------------------
\* The cache by itself: its three public operations, each under the lock
\* from beginning to end, the clock, and the refresh thread's cycle.

MaxTicks  == 3    \* steps of the clock
MaxCycles == 2    \* node lists installed (by refresh cycles, or before Init)
MaxMarks  == 4    \* calls of mark_node_failure in SpecMarks
PolicyMarks == 2  \* calls of mark_node_failure in SpecPolicy

\* the clock's steps, in seconds: the minimum interval to the second, and
\* what is left of the expiry time
TickShort == MIN_REFRESH_INTERVAL
TickLong  == CACHE_EXPIRY - MIN_REFRESH_INTERVAL

\* the directory of monero.fail: unreachable, listing nothing or listing
\* one node
PolicyDirectories == Directories \cup { [ok |-> TRUE, clear |-> <<>>] }

\* every way the probes of a directory's nodes may end
PolicyProbes(dir) == [DOMAIN dir.clear -> ProbeResults]

\* open(CACHE_FILE, 'wb') fails, pickle.dump fails half way, or the
\* snapshot is written
PolicyDisks == {"ok", "unwritable", "garbled"}

\* CACHE_FILE when the process starts
PolicyFiles == {NoFile, OldSnapshot, BadFile}

\* the urls the clients report: those of the nodes the cache may hold, and
\* one it never holds
SampleUrls ==
    {n.url : n \in Range(FallbackNodes(0))}
        \cup {Url("http", "elsewhere.node", 18081, "/json_rpc")}

\* the urls the clients of SpecPolicy report: of a node of the hardcoded
\* list, of the directory's node, of no node
PolicyUrls ==
    {MarkUrl, Url("http", "elsewhere.node", 18081, "/json_rpc")}
        \cup {JsonRpcUrl(u) : u \in UNION {Range(dir.clear) : dir \in PolicyDirectories}}

\* how a refresh cycle went: the five ways of _fetch_and_test_nodes
CycleKind(dir, late, new_nodes) ==
    IF ~dir.ok THEN "unreachable"
    ELSE IF dir.clear = <<>> THEN "no_candidates"
    ELSE IF late THEN "late"
    ELSE IF new_nodes = <<>> THEN "none_survived"
    ELSE "nodes"

\* the success_rate of the record mark_node_failure(url) changes (0: none)
RateOf(nodes, url) ==
    LET i == FirstWithUrl(nodes, url)
    IN IF i = 0 THEN 0 ELSE nodes[i].success_rate

\* no operation: the clock's step, or the refresh thread's cycle
Passed(kind) ==
    [NoOp EXCEPT !.kind = kind, !.check_start = last.check_start,
                 !.ticks = last.ticks, !.marks = last.marks,
                 !.nexts = last.nexts, !.written = last.written,
                 !.forced = last.forced]

\* the operation kind took the cache from c to d at time t
Observed(kind, c, d, t) ==
    [last EXCEPT !.kind = kind, !.url = NoUrl, !.ret = "", !.how = "", !.prev = 0,
               !.gap = -1,
               !.started = (Started(c, d) = 1),
               !.empty = (c.nodes = <<>>),
               !.expired = (t - c.last_refresh > CACHE_EXPIRY),
               !.recent = (t - c.last_refresh <= MIN_REFRESH_INTERVAL),
               !.weak = (Healthy(c.nodes) < 2),
               !.inflight = c.refresh_in_progress,
               !.weak_after = (Healthy(d.nodes) < 2),
               !.streak = 0, !.initial = 0, !.node = NoNode]

\* the same, the operation being one that runs the refresh check
Checked(kind, c, d, t) ==
    LET o == Observed(kind, c, d, t)
    IN IF o.started
       THEN [o EXCEPT !.gap = IF last.check_start = 0 THEN -1 ELSE t - last.check_start,
                      !.check_start = t]
       ELSE o

\* nothing but the cache, its file, the clock and last changes
CacheOnly == UNCHANGED <<mgr, tr, call, conc>>

\* _node_cache = MoneroNodeCache()
InitPolicy ==
    /\ cache = [nodes |-> <<>>, last_refresh |-> 0, refresh_in_progress |-> FALSE]
    /\ cacheFile \in PolicyFiles
    /\ bg = [fetch |-> 0]
    /\ gen = 0
    /\ now = StartTime
    /\ mgr = NoManager
    /\ tr = [node_manager |-> FALSE, config |-> DefaultConfig, session |-> FALSE,
             request_id |-> 0]
    /\ call = Idle
    /\ conc = NoThreads
    /\ last = NoOp

\* get_random_node
PolicyRandomNode ==
    /\ \E n \in RandomNodeChoices(cache) :
          LET d == RandomNodeCache(cache, now)
          IN /\ SetCache(d)
             /\ last' = [Checked("random", cache, d, now) EXCEPT !.ret = n.name,
                                                                !.node = n]
    /\ CacheOnly
    /\ UNCHANGED <<cacheFile, gen, now>>

\* get_all_nodes
PolicyAllNodes ==
    /\ LET d == AllNodesCache(cache, now)
       IN /\ SetCache(d)
          /\ last' = Checked("all", cache, d, now)
    /\ CacheOnly
    /\ UNCHANGED <<cacheFile, gen, now>>

\* mark_node_failure(url) for a url of urls, at most limit times;
\* counted, the marks made in a row on one url are followed
MarkOf(urls, counted, limit) ==
    /\ last.marks < limit
    /\ \E url \in urls :
          LET d == MarkNodeFailureCache(cache, url)
              prev == RateOf(cache.nodes, url)
              more == last.kind = "mark" /\ last.url = url /\ last.streak > 0
              o == [Observed("mark", cache, d, now) EXCEPT !.url = url, !.prev = prev]
          IN /\ SetCache(d)
             /\ last' = IF counted /\ prev # 0
                        THEN [o EXCEPT !.marks = @ + 1,
                                       !.streak = IF more THEN last.streak + 1 ELSE 1,
                                       !.initial = IF more THEN last.initial ELSE prev]
                        ELSE [o EXCEPT !.marks = @ + 1]
    /\ CacheOnly
    /\ UNCHANGED <<cacheFile, gen, now>>

\* mark_node_failure(url)
PolicyMark == MarkOf(PolicyUrls, FALSE, PolicyMarks)

\* time passes
PolicyTick ==
    /\ last.ticks < MaxTicks
    /\ \E d \in {TickShort, TickLong} : now' = now + d
    /\ last' = [Passed("tick") EXCEPT !.ticks = @ + 1]
    /\ CacheOnly
    /\ UNCHANGED <<cache, cacheFile, bg, gen>>

\* one cycle of _background_refresh: the fetch and the probes, the swap and
\* the save or the fallback, and the finally clause
PolicyCycle ==
    /\ bg.fetch > 0
    /\ gen < MaxCycles
    /\ gen' = gen + 1
    /\ bg' = [bg EXCEPT !.fetch = @ - 1]
    /\ \E dir \in PolicyDirectories, late \in BOOLEAN, disk \in PolicyDisks :
       \E probes \in PolicyProbes(dir), order \in Orders(Len(dir.clear)) :
          LET new_nodes == FetchAndTestNodes(dir, probes, order, late, gen' + 1, gen')
              swapped == [cache EXCEPT !.nodes = new_nodes, !.last_refresh = now]
              d == IF Swaps(new_nodes) THEN swapped
                   ELSE LoadFallback(cache, cacheFile, gen')
          IN /\ cache' = [d EXCEPT !.refresh_in_progress = FALSE]
             /\ cacheFile' = IF Swaps(new_nodes)
                             THEN SaveToCache(swapped, cacheFile, now, disk)
                             ELSE cacheFile
             /\ last' = [Passed("cycle")
                            EXCEPT !.how = CycleKind(dir, late, new_nodes),
                                   !.written = IF new_nodes = <<>> \/ disk = "unwritable"
                                               THEN @
                                               ELSE IF disk = "ok" THEN new_nodes
                                               ELSE <<>>]
    /\ CacheOnly
    /\ UNCHANGED now

NextPolicy ==
    \/ PolicyRandomNode
    \/ PolicyAllNodes
    \/ PolicyMark
    \/ PolicyTick
    \/ PolicyCycle

SpecPolicy == InitPolicy /\ [][NextPolicy]_vars

----------------------------------------------------------------------------
\* mark_node_failure by itself, on a list of three records with any
\* success_rate between the floor and 1.0.

\* 0.1, 0.2, ... 1.0
RateSamples == {k * RateFloor : k \in 1..10}

\* 0.1, 0.4, 0.6, 1.0
CoarseSamples == {RateFloor, 4 * RateFloor, 6 * RateFloor, RateFull}

\* the hardcoded list with every sampled rate for its first record and the
\* coarse ones for the others
SampleLists ==
    { [i \in 1..3 |-> [FallbackNodes(1)[i] EXCEPT !.success_rate = r[i]]] :
        r \in {q \in [1..3 -> RateSamples] : q[2] \in CoarseSamples /\ q[3] \in CoarseSamples} }

InitMarks ==
    /\ cache \in [nodes : SampleLists, last_refresh : {0}, refresh_in_progress : {FALSE}]
    /\ cacheFile = NoFile
    /\ bg = [fetch |-> 0]
    /\ gen = 1
    /\ now = StartTime
    /\ mgr = NoManager
    /\ tr = [node_manager |-> FALSE, config |-> DefaultConfig, session |-> FALSE,
             request_id |-> 0]
    /\ call = Idle
    /\ conc = NoThreads
    /\ last = NoOp

\* mark_node_failure(url), the marks in a row followed
CountedMark == MarkOf(SampleUrls, TRUE, MaxMarks)

NextMarks ==
    \/ CountedMark
    \/ PolicyCycle

SpecMarks == InitMarks /\ [][NextMarks]_vars

----------------------------------------------------------------------------
\* The node manager by itself: its methods, each as one step, called in any
\* order on a manager built after the module was imported, the refresh
\* cycle running beside them.

MaxNexts == 1        \* calls of get_next_node
ManagerMarks == 4    \* calls of the manager's mark_node_failure
ManagerCycles == 1   \* refresh cycles that end beside the manager

\* the url handed to the manager's mark_node_failure: that of its current
\* node, or one no record has
ManagerUrls ==
    IF mgr.current = NoNode THEN {Url("http", "elsewhere.node", 18081, "/json_rpc")}
    ELSE {mgr.current.url}

\* the method kind of the manager had the outcome o
Managed(kind, o) ==
    [Passed(kind) EXCEPT !.node = o.node, !.started = (Started(cache, o.c) = 1)]

\* nothing but the manager, the cache and last changes
ManagerOnly == UNCHANGED <<cacheFile, gen, now, tr, call, conc>>

\* the module has been imported: _node_cache is built and get_all_nodes
\* has started the first refresh thread
InitManager ==
    /\ cache = AllNodesCache([nodes |-> <<>>, last_refresh |-> 0,
                              refresh_in_progress |-> FALSE], StartTime)
    /\ cacheFile = NoFile
    /\ bg = [fetch |-> 1]
    /\ gen = 0
    /\ now = StartTime
    /\ mgr = NoManager
    /\ tr = [node_manager |-> FALSE, config |-> DefaultConfig, session |-> FALSE,
             request_id |-> 0]
    /\ call = Idle
    /\ conc = NoThreads
    /\ last = NoOp

\* MoneroNodeManager(nodes) with a list
ManagerNewStatic ==
    /\ mgr = NoManager
    /\ \E nodes \in StaticLists : mgr' = StaticManager(nodes)
    /\ last' = [Passed("new") EXCEPT !.how = "static"]
    /\ UNCHANGED <<cache, bg>>
    /\ ManagerOnly

\* MoneroNodeManager() without one
ManagerNewCache ==
    /\ mgr = NoManager
    /\ mgr' = CacheManager(cache)
    /\ SetCache(AllNodesCache(cache, now))
    /\ last' = [Passed("new") EXCEPT !.how = "cache"]
    /\ ManagerOnly

\* get_current_node
ManagerCurrent ==
    /\ mgr # NoManager
    /\ \E o \in GetCurrentNode(mgr, cache, now) :
          /\ mgr' = o.m
          /\ SetCache(o.c)
          /\ last' = Managed("current", o)
    /\ ManagerOnly

\* get_next_node
ManagerNext ==
    /\ mgr # NoManager
    /\ last.nexts < MaxNexts
    /\ LET marked == NextNodeMark(mgr, cache)
       IN \E o \in NextNodePick(marked.m, marked.c, now) :
             /\ mgr' = o.m
             /\ SetCache(o.c)
             /\ last' = [Managed("next", o) EXCEPT !.nexts = @ + 1]
    /\ ManagerOnly

\* reset_to_random_node
ManagerReset ==
    /\ mgr # NoManager
    /\ \E o \in ResetToRandomNode(mgr, cache, now) :
          /\ mgr' = o.m
          /\ SetCache(o.c)
          /\ last' = Managed("reset", o)
    /\ ManagerOnly

\* mark_node_failure(node_url)
ManagerMark ==
    /\ mgr # NoManager
    /\ last.marks < ManagerMarks
    /\ \E url \in ManagerUrls :
          LET marked == MarkFailureInCache(mgr, cache, url)
              o == MarkFailureCount(marked.m, marked.c)
          IN /\ mgr' = o.m
             /\ SetCache(o.c)
             /\ last' = [Managed("manager_mark", o) EXCEPT !.marks = @ + 1]
    /\ ManagerOnly

\* a refresh cycle ends
ManagerCycle ==
    /\ gen < ManagerCycles
    /\ PolicyCycle

NextManager ==
    \/ ManagerNewStatic
    \/ ManagerNewCache
    \/ ManagerCurrent
    \/ ManagerNext
    \/ ManagerReset
    \/ ManagerMark
    \/ ManagerCycle

SpecManager == InitManager /\ [][NextManager]_vars

----------------------------------------------------------------------------
\* One refresh cycle by itself, on directories of up to MaxListed urls.  What
\* the directory and the probes answer is drawn at the start and kept in
\* last.input.

MaxListed == 22

\* the lengths of the directory's clearnet list: around the cut of the
\* result and around the cap of the candidates
DiscoveryLengths ==
    {1, 2, TopK, TopK + 1, CandidateCap, CandidateCap + 1, MaxListed}

\* a directory of n urls, all different
DirectoryOf(n) ==
    [ok |-> TRUE,
     clear |-> [i \in 1..n |->
                  Url("http", IF i % 2 = 0 THEN "p1.node" ELSE "p2.node", 18000 + i, "/")]]

DiscoveryPatterns == {"rising", "falling", "mixed", "flat", "tail_best", "none", "stalling"}

\* how the probes of n urls end: ever slower, ever faster, some failing and
\* some answering something else than JSON-RPC with round trips that tie,
\* all within 0.1 s, the urls past the cap the fastest, none answering,
\* every other one running into the timeouts of its request (5 s to connect
\* and 5 s to read)
ProbePattern(pattern, n) ==
    [i \in 1..n |->
        CASE pattern = "rising"    -> [kind |-> "rpc", rt |-> i]
          [] pattern = "falling"   -> [kind |-> "rpc", rt |-> n + 1 - i]
          [] pattern = "mixed"     -> [kind |-> IF i % 3 = 0 THEN "fail"
                                                ELSE IF i % 4 = 0 THEN "json" ELSE "rpc",
                                       rt |-> (i * 7) % 11]
          [] pattern = "flat"      -> [kind |-> "rpc", rt |-> 0]
          [] pattern = "tail_best" -> [kind |-> "rpc",
                                       rt |-> IF i > CandidateCap THEN 1 ELSE 30 + (i % 3)]
          [] pattern = "stalling"  -> IF i % 2 = 0 THEN [kind |-> "rpc", rt |-> 2]
                                      ELSE [kind |-> "fail", rt |-> 100]
          [] OTHER                 -> [kind |-> IF i % 2 = 0 THEN "fail" ELSE "json",
                                       rt |-> 3]]

\* the probes complete in the order of the directory, or in the opposite one
CompletionOrders(n) == {[i \in 1..n |-> i], [i \in 1..n |-> n + 1 - i]}

\* what one cycle meets
DiscoveryInputs ==
    UNION {{[dir |-> DirectoryOf(n), probes |-> ProbePattern(p, n), order |-> o,
             late |-> FALSE] : p \in DiscoveryPatterns, o \in CompletionOrders(n)} :
              n \in DiscoveryLengths}
      \cup {[dir |-> DirectoryOf(CandidateCap),
              probes |-> ProbePattern("stalling", CandidateCap),
              order |-> [i \in 1..CandidateCap |-> i], late |-> TRUE],
             [dir |-> [ok |-> FALSE, clear |-> <<>>], probes |-> <<>>, order |-> <<>>,
              late |-> FALSE],
             [dir |-> [ok |-> TRUE, clear |-> <<>>], probes |-> <<>>, order |-> <<>>,
              late |-> FALSE]}

\* the module has been imported and the first refresh thread started
InitDiscovery ==
    /\ cache = AllNodesCache([nodes |-> <<>>, last_refresh |-> 0,
                              refresh_in_progress |-> FALSE], StartTime)
    /\ cacheFile = NoFile
    /\ bg = [fetch |-> 1]
    /\ gen = 0
    /\ now = StartTime
    /\ mgr = NoManager
    /\ tr = [node_manager |-> FALSE, config |-> DefaultConfig, session |-> FALSE,
             request_id |-> 0]
    /\ call = Idle
    /\ conc = NoThreads
    /\ \E input \in DiscoveryInputs : last = [NoOp EXCEPT !.input = input]

\* the cycle of _background_refresh on last.input
DiscoveryCycle ==
    /\ bg.fetch > 0
    /\ gen' = gen + 1
    /\ bg' = [bg EXCEPT !.fetch = @ - 1]
    /\ LET input == last.input
           new_nodes == FetchAndTestNodes(input.dir, input.probes, input.order,
                                          input.late, gen' + 1, gen')
           swapped == [cache EXCEPT !.nodes = new_nodes, !.last_refresh = now]
           d == IF Swaps(new_nodes) THEN swapped
                ELSE LoadFallback(cache, cacheFile, gen')
       IN /\ cache' = [d EXCEPT !.refresh_in_progress = FALSE]
          /\ cacheFile' = IF Swaps(new_nodes)
                          THEN SaveToCache(swapped, cacheFile, now, "ok")
                          ELSE cacheFile
          /\ last' = [last EXCEPT !.kind = "cycle",
                                  !.how = CycleKind(input.dir, input.late, new_nodes),
                                  !.written = new_nodes]
    /\ CacheOnly
    /\ UNCHANGED now

NextDiscovery == DiscoveryCycle

SpecDiscovery == InitDiscovery /\ [][NextDiscovery]_vars

----------------------------------------------------------------------------
\* One cache-backed manager shared by the client threads, each calling its
\* mark_node_failure.  The method takes no lock of its own: a thread may be
\* preempted between any two of its steps, and self._failure_count += 1 is
\* a read and a write.  conc.th[t].failure_count is the value thread t read.

SharedMarks == 5     \* calls of mark_node_failure the threads begin

\* a thread is at pc and goes to q
SharedStep(t, pc, q) ==
    /\ conc.th[t].pc = pc
    /\ conc' = [conc EXCEPT !.th[t].pc = q]

\* the manager exists, built while the first refresh thread was running
InitShared ==
    /\ cache = AllNodesCache([nodes |-> <<>>, last_refresh |-> 0,
                              refresh_in_progress |-> FALSE], StartTime)
    /\ cacheFile = NoFile
    /\ bg = [fetch |-> 1]
    /\ gen = 0
    /\ now = StartTime
    /\ mgr = CacheManager(cache)
    /\ tr = [node_manager |-> FALSE, config |-> DefaultConfig, session |-> FALSE,
             request_id |-> 0]
    /\ call = Idle
    /\ conc = [NoThreads EXCEPT !.th = [t \in Clients |-> IdleClient]]
    /\ last = NoOp

\* a thread calls mark_node_failure(node_url)
SharedCall ==
    /\ last.marks < SharedMarks
    /\ \E t \in Clients : SharedStep(t, "idle", "mark")
    /\ last' = [last EXCEPT !.kind = "manager_mark", !.marks = @ + 1]
    /\ UNCHANGED <<cache, cacheFile, bg, gen, now, mgr, tr, call>>

\* _node_cache.mark_node_failure(node_url), under the cache's lock
SharedCacheMark ==
    /\ \E t \in Clients : SharedStep(t, "mark", "load")
    /\ LET marked == MarkFailureInCache(mgr, cache, MarkUrl)
       IN /\ mgr' = marked.m
          /\ SetCache(marked.c)
    /\ UNCHANGED <<cacheFile, gen, now, tr, call, last>>

\* self._failure_count += 1, the read
SharedLoad ==
    /\ \E t \in Clients :
          /\ conc.th[t].pc = "load"
          /\ conc' = [conc EXCEPT !.th[t].pc = "store",
                                  !.th[t].failure_count = mgr.failure_count]
    /\ UNCHANGED <<cache, cacheFile, bg, gen, now, mgr, tr, call, last>>

\* self._failure_count += 1, the write
SharedStore ==
    /\ \E t \in Clients :
          /\ conc.th[t].pc = "store"
          /\ conc' = [conc EXCEPT !.th[t].pc = "test", !.th[t].failure_count = 0]
          /\ mgr' = [mgr EXCEPT !.failure_count = conc.th[t].failure_count + 1]
    /\ UNCHANGED <<cache, cacheFile, bg, gen, now, tr, call, last>>

\* if self._failure_count > 3
SharedTest ==
    /\ \E t \in Clients :
          SharedStep(t, "test", IF mgr.failure_count > FailureLimit THEN "force" ELSE "idle")
    /\ UNCHANGED <<cache, cacheFile, bg, gen, now, mgr, tr, call, last>>

\* _node_cache._force_refresh()
SharedForce ==
    /\ \E t \in Clients : SharedStep(t, "force", "reset")
    /\ SetCache(ForceRefresh(cache))
    /\ last' = [last EXCEPT !.forced = @ + 1]
    /\ UNCHANGED <<cacheFile, gen, now, mgr, tr, call>>

\* self._failure_count = 0
SharedReset ==
    /\ \E t \in Clients : SharedStep(t, "reset", "idle")
    /\ mgr' = [mgr EXCEPT !.failure_count = 0]
    /\ UNCHANGED <<cache, cacheFile, bg, gen, now, tr, call, last>>

NextShared ==
    \/ SharedCall
    \/ SharedCacheMark
    \/ SharedLoad
    \/ SharedStore
    \/ SharedTest
    \/ SharedForce
    \/ SharedReset
    \/ ManagerCycle

SpecShared == InitShared /\ [][NextShared]_vars

----------------------------------------------------------------------------
\* Properties of MCPTransport.call

\* a step of the running call
CallStep ==
    \/ Attempt
    \/ MarkFailure
    \/ MarkCount
    \/ TryNextNode
    \/ NextPick
    \/ Reroll
    \/ Reset
    \/ Reconfigure

\* the endpoint a request for node n goes to
Endpoint(n) == ConfigUrl(ToRpcConfig(n))

\* the call has raised the error of line 852 after asking for other nodes
Exhausted ==
    /\ call.pc = "done"
    /\ call.result = "failed"
    /\ call.retry
    /\ tr.node_manager

\* the node records the manager knew of while the call ran
KnownRecords ==
    {n \in Range(mgr.nodes) \cup (IF mgr.use_cache THEN Range(cache.nodes) ELSE {}) :
        n.name \in call.known}

\* rate after k failures
RECURSIVE DecayTimes(_, _)
DecayTimes(rate, k) == IF k = 0 THEN rate ELSE DecayTimes(Decay(rate), k - 1)

\* C1: within one call on a transport with a node manager, no endpoint URL
\* is sent more than one request.
C1_NoEndpointTwice ==
    tr.node_manager => \A u \in BagToSet(call.sent) : CopiesIn(u, call.sent) <= 1

\* C2: with retry_on_other_nodes true, the terminal error is raised only
\* when every known node has been attempted in this call: it is never
\* raised while a known node is still untried.
C2_ExhaustedOnlyWhenAllTried ==
    Exhausted => \A n \in KnownRecords : Endpoint(n) \in BagToSet(call.sent)

\* C3: an attempt answered with a JSON-RPC error envelope ends the call at
\* once with MoneroRPCError carrying the envelope's code, message and data:
\* the step changes no node record and no field of the manager (no other
\* node is asked for, no success_rate changes, the failure counter stays),
\* and the call sends nothing more afterwards.
C3_RpcErrorRaisedAtOnce ==
    [][ /\ (call.pc = "attempt" /\ call'.outcome = "rpc_error") =>
             /\ call'.pc = "done"
             /\ call'.result = "rpc_error"
             /\ call'.reply.message # "absent" => call'.error.message = call'.reply.message
             /\ call'.reply.code # "absent" => call'.error.error_code = call'.reply.code
             /\ call'.reply.data # "absent" => call'.error.error_data = call'.reply.data
             /\ mgr' = mgr
             /\ cache' = cache
             /\ BagCardinality(call'.sent) = BagCardinality(call.sent) + 1
        /\ (call.outcome = "rpc_error") =>
             /\ call'.pc \in {"done", "idle"}
             /\ call'.pc = "done" => call'.sent = call.sent
             /\ mgr' = mgr
      ]_vars

\* C3 happens: a second attempt of a call through a cache-backed manager was
\* answered with an error envelope that has a data member.
C3_Witness ==
    /\ call.pc = "done"
    /\ call.result = "rpc_error"
    /\ mgr.use_cache
    /\ BagCardinality(call.sent) = 2
    /\ call.reply.data # "absent"

\* C4: an attempt that ended in a transport failure (timeout, connection
\* error, non-2xx status, other request error, body that is not JSON) on a
\* transport with a node manager goes on to mark the node failed through
\* the manager.
C4_TransportFailureMarksNode ==
    (tr.node_manager /\ call.outcome \in FailureKinds \cup {"bad_json"})
        => call.pc = "mark_failure"

\* C8: when a call through a cache-backed manager has failed on every
\* attempt, each node record that was there when the call began has its
\* success_rate decayed once for every failed attempt sent to its endpoint,
\* and not otherwise.
C8_EachFailureDecaysOnce ==
    LET after == Records(mgr, cache)
    IN (/\ Exhausted
        /\ mgr.use_cache
        /\ call.before # <<>>
        /\ Len(after) = Len(call.before)
        /\ \A i \in DOMAIN after : /\ after[i].obj = call.before[i].obj
                                   /\ after[i].url = call.before[i].url)
       => \A i \in DOMAIN after :
             after[i].success_rate =
                 DecayTimes(call.before[i].success_rate,
                            CopiesIn(Endpoint(after[i]), call.sent))

\* C9: when the call is about to send a request on a transport with a node
\* manager, the transport's endpoint is the endpoint of the manager's
\* current node and the name the call records is that node's name.
C9_AttemptGoesToCurrentNode ==
    (call.pc = "attempt" /\ tr.node_manager)
        => /\ ConfigUrl(tr.config) = Endpoint(mgr.current)
           /\ call.name = mgr.current.name

\* C10: a call makes as many attempts as it has recorded names, never more
\* than the number of distinct nodes known while it ran, and exactly one
\* when there is no node manager; until it returns or raises it always has
\* a next step to take.
C10_AttemptsBounded ==
    /\ BagCardinality(call.sent) = Cardinality(call.tried)
    /\ tr.node_manager /\ call.pc # "idle" => call.tried \subseteq call.known
    /\ tr.node_manager => BagCardinality(call.sent) <= Cardinality(call.known)
    /\ ~tr.node_manager => BagCardinality(call.sent) <= 1
    /\ ~tr.node_manager /\ call.pc = "done" => BagCardinality(call.sent) = 1
    /\ Running => ENABLED CallStep

\* C10 happens: a call has ended after one attempt for each of three known
\* nodes.
C10_Witness ==
    /\ call.pc = "done"
    /\ tr.node_manager
    /\ Cardinality(call.known) = 3
    /\ BagCardinality(call.sent) = 3

----------------------------------------------------------------------------
\* Properties of the cache under several threads

\* the refresh threads started so far number at most MaxOps + 1
RefreshIds == 1..(MaxOps + 1)

\* refresh thread i has started and has not ended
Refreshing(i) == \E r \in conc.rf : r.id = i

\* C5: at most one thread is running _background_refresh.
C5_SingleFlight == Cardinality(conc.rf) <= 1

\* C6: every refresh thread that starts ends, and the step that ends it
\* leaves _refresh_in_progress false, whatever the try block did.
C6_CycleCompletes ==
    /\ \A i \in RefreshIds : Refreshing(i) ~> ~Refreshing(i)
    /\ [][conc'.acc.cycle # "" => ~cache'.refresh_in_progress]_vars

\* C6 happens: a cycle whose try block raised has just completed.
C6_Witness ==
    /\ conc.acc.cycle = "raised"
    /\ ~cache.refresh_in_progress

\* C7: every step that reads or writes _nodes, _last_refresh or
\* _refresh_in_progress is taken by a thread that holds the lock.
C7_AccessUnderLock == conc.acc.held

----------------------------------------------------------------------------
\* Properties of the cache's operations

RECURSIVE Pow(_, _)
Pow(b, k) == IF k = 0 THEN 1 ELSE b * Pow(b, k - 1)

\* rate * 0.8^k, for a rate that is a multiple of 10^k units
Scaled(rate, k) == (rate \div Pow(10, k)) * Pow(8, k)

\* the lists a and b hold equal records, in the same order
SameRecords(a, b) ==
    /\ Len(a) = Len(b)
    /\ \A i \in DOMAIN a : NodeEq(a[i], b[i])

\* the success_rate of the record the last mark_node_failure changed
Marked == RateOf(cache.nodes, last.url)

\* C11: every node record the cache holds has a success_rate of at least
\* 0.1 and at most 1.0, whatever marks, swaps and fallback loads were made.
C11_RateWithinBounds ==
    \A i \in DOMAIN cache.nodes :
       /\ cache.nodes[i].success_rate >= RateFloor
       /\ cache.nodes[i].success_rate <= RateFull

\* C11 happens: a record that was at the floor has been marked again.
C11_Witness ==
    /\ last.kind = "mark"
    /\ last.prev = RateFloor
    /\ Marked = RateFloor

\* C12 as stated: mark_node_failure(url) strictly lowers the success_rate
\* of the record with that url, to 0.8 times what it was, and never below
\* 0.1.
C12_StrictDecrease ==
    (last.kind = "mark" /\ last.prev # 0)
        => /\ Marked < last.prev
           /\ Marked * 10 = last.prev * 8
           /\ Marked >= RateFloor

\* C12: mark_node_failure(url) leaves the first record with that url at
\* the larger of 0.1 and 0.8 times its previous success_rate: 0.8 times it,
\* and lower, when that is no less than 0.1; 0.1 otherwise, which is lower
\* unless the record was at 0.1 already; never below 0.1.
C12_DecayToFloor ==
    (last.kind = "mark" /\ last.prev # 0)
        => /\ Marked >= RateFloor
           /\ last.prev * 8 >= RateFloor * 10
                => (Marked * 10 = last.prev * 8 /\ Marked < last.prev)
           /\ last.prev * 8 < RateFloor * 10 => Marked = RateFloor
           /\ Marked = last.prev <=> last.prev = RateFloor

\* C12 happens: a record above the floor was marked and stopped at it.
C12_Witness ==
    /\ last.kind = "mark"
    /\ last.prev > RateFloor
    /\ last.prev * 8 < RateFloor * 10
    /\ Marked = RateFloor

\* C13: after k calls of mark_node_failure in a row on one url, no refresh
\* cycle completing in between, the record's success_rate is the larger of
\* 0.1 and 0.8^k times what it was before the first of them.
C13_StreakClosedForm ==
    (last.kind = "mark" /\ last.streak > 0)
        => Marked = Max2(RateFloor, Scaled(last.initial, last.streak))

\* C13 happens: the fourth mark in a row of a record that began at 0.2 has
\* left it at the floor.
C13_Witness ==
    /\ last.kind = "mark"
    /\ last.streak = 4
    /\ last.initial = 2 * RateFloor
    /\ Marked = RateFloor

\* C14: get_random_node called on an empty cache, with no snapshot on disk
\* (the cache being empty, no refresh cycle has completed and the directory
\* has given no answer), returns a record of the hardcoded fallback list.
C14_FallbackNodeReturned ==
    (last.kind = "random" /\ last.empty /\ cacheFile = NoFile)
        => last.ret \in Names(FallbackNodes(0))

\* C15: a refresh cycle whose discovery gave no node (the directory did not
\* answer, listed nothing, the probes ran out of time or none was kept)
\* ends with the cache holding the records of the snapshot on disk when
\* that can be loaded, the hardcoded list otherwise, and the flag off.
C15_FallbackChoice ==
    (last.kind = "cycle" /\ last.how # "nodes")
        => /\ ~cache.refresh_in_progress
           /\ cacheFile.kind = "dict" => SameRecords(cache.nodes, cacheFile.nodes)
           /\ cacheFile.kind # "dict" => SameRecords(cache.nodes, FallbackNodes(0))

\* C15 happens: no probed node was kept and the snapshot was loaded.
C15_Witness ==
    /\ last.kind = "cycle"
    /\ last.how = "none_survived"
    /\ cacheFile.kind = "dict"
    /\ cache.nodes # <<>>

\* C16: get_random_node called on a non-empty node set that is expired or
\* has fewer than 2 healthy records, no refresh being in flight and the
\* minimum interval having passed, starts a refresh.
C16_RandomNodeChecks ==
    (/\ last.kind = "random"
     /\ ~last.empty
     /\ last.expired \/ last.weak
     /\ ~last.inflight
     /\ ~last.recent)
        => last.started

\* C17: get_all_nodes starts a refresh exactly when the node set is
\* expired, empty or has fewer than 2 healthy records, and the last refresh
\* is more than MIN_REFRESH_INTERVAL old, and no refresh is in flight.
C17_RefreshCheck ==
    last.kind = "all"
        => (last.started <=> /\ last.expired \/ last.empty \/ last.weak
                             /\ ~last.recent
                             /\ ~last.inflight)

\* C17 happens: get_all_nodes started a refresh of a set that was neither
\* empty nor expired.
C17_Witness ==
    /\ last.kind = "all"
    /\ last.started
    /\ ~last.expired
    /\ ~last.empty
    /\ last.weak

\* C18: when the refresh check starts a refresh, the refresh it started
\* before that began at least MIN_REFRESH_INTERVAL earlier.
C18_CheckStartsApart == last.gap = -1 \/ last.gap >= MIN_REFRESH_INTERVAL

\* C19: mark_node_failure starts a refresh exactly when it leaves fewer
\* than 2 healthy records and no refresh is in flight, whatever the age of
\* the last refresh.
C19_MarkForcesRefresh ==
    last.kind = "mark" => (last.started <=> (last.weak_after /\ ~last.inflight))

\* C19 happens: a mark started a refresh of a set refreshed less than
\* MIN_REFRESH_INTERVAL before.
C19_Witness ==
    /\ last.kind = "mark"
    /\ last.started
    /\ last.recent
    /\ ~last.empty

\* C20: when a call on a transport with a node manager has returned a
\* result, the pooled session is discarded and the transport's endpoint is
\* that of the manager's current node.
C20_SuccessRerolls ==
    (call.pc = "done" /\ call.result = "ok" /\ tr.node_manager)
        => /\ ~tr.session
           /\ ConfigUrl(tr.config) = Endpoint(mgr.current)

\* ---------------------------------------------------------------------------
\* Properties of the lock, of the node manager, of discovery and of the
\* snapshot
\* ---------------------------------------------------------------------------

\* C21: while a refresh thread is in _fetch_and_test_nodes (the directory
\* fetch and the probes) it does not hold the cache's lock, and whoever holds
\* it is inside a with block that its next step leaves: a client in
\* get_random_node, get_all_nodes or mark_node_failure, or another refresh
\* thread at its swap or in _load_fallback; when the lock is free a client
\* can take it
C21_LockFreeDuringFetch ==
    \A r \in conc.rf :
       r.pc = "fetch" =>
          /\ conc.lock # Refresher(r.id)
          /\ \A t \in Clients :
                conc.lock = Client(t) => conc.th[t].pc \in {"random", "all", "mark"}
          /\ \A q \in conc.rf :
                conc.lock = Refresher(q.id) => q.pc \in {"swap_locked", "fallback_locked"}
          /\ (/\ conc.lock = NoHolder
              /\ conc.ops < MaxOps
              /\ \E t \in Clients : conc.th[t].pc = "idle") => ENABLED Acquire

\* the first refresh thread is still fetching, three operations of the
\* clients have taken the lock meanwhile and the last has released it
C21_Witness ==
    /\ \E r \in conc.rf : r.id = 1 /\ r.pc = "fetch"
    /\ conc.ops >= 3
    /\ conc.lock = NoHolder
    /\ conc.acc.held
    /\ conc.acc.fields = {"nodes", "last_refresh", "flag"}
    /\ \A t \in Clients : conc.th[t].pc = "idle"

\* the manager's method kind has just returned a node
Returned(kind) == last.kind = kind /\ last.node # NoNode

\* C22: on a cache-backed manager with a current node, a node returned by
\* get_next_node has another url than the node that was current when it was
\* called, and is the current node afterwards
C22_NextNodeDiffers ==
    [][(mgr.use_cache /\ mgr.current # NoNode /\ last'.kind = "next"
            /\ last'.node # NoNode)
          => /\ last'.node.url # mgr.current.url
             /\ mgr'.current = last'.node]_vars

\* C23: a node a cache-backed manager has just made current is a record of
\* the cache's list as it is then or, the cache holding nothing, a node of
\* the hardcoded list
C23_RoutesToCacheRecords ==
    (/\ mgr.use_cache
     /\ Returned("current") \/ Returned("next") \/ Returned("reset"))
       => /\ mgr.current = last.node
          /\ IF cache.nodes # <<>>
             THEN last.node \in Range(cache.nodes)
             ELSE \E n \in Range(FallbackNodes(0)) : NodeEq(n, last.node)

\* the nodes of the manager's list other than its current node
OtherNodes(m) == {n \in Range(m.nodes) : n # m.current}

\* C24: on a static-list manager get_next_node returns a node of the list
\* other than the current node and makes it current, and returns nothing
\* exactly when the list holds no such node
C24_StaticNextNode ==
    [][(mgr # NoManager /\ ~mgr.use_cache /\ last'.kind = "next")
          => IF OtherNodes(mgr) = {}
             THEN last'.node = NoNode
             ELSE last'.node \in OtherNodes(mgr) /\ mgr'.current = last'.node]_vars

\* C25: the manager's mark_node_failure adds one to the failure counter and,
\* the sum exceeding 3, forces a cache refresh (cache-backed) and sets the
\* counter to 0; so the counter stays in 0..3, the refresh is forced by the
\* fourth, eighth, ... mark and by no other, and every other operation
\* leaves the counter alone
C25_FailureCounter ==
    [][/\ mgr'.failure_count \in 0..FailureLimit
       /\ last'.kind # "manager_mark" => mgr'.failure_count = mgr.failure_count
       /\ last'.kind = "manager_mark" =>
             LET fourth == last'.marks % (FailureLimit + 1) = 0
             IN /\ last'.marks = last.marks + 1
                /\ mgr'.failure_count = last'.marks % (FailureLimit + 1)
                /\ mgr'.failure_count = IF fourth THEN 0 ELSE mgr.failure_count + 1
                /\ IF mgr.use_cache
                   THEN \E url \in ManagerUrls :
                           cache' = IF fourth
                                    THEN ForceRefresh(MarkNodeFailureCache(cache, url))
                                    ELSE MarkNodeFailureCache(cache, url)
                   ELSE cache' = cache]_vars

\* the fourth mark of a cache-backed manager has just started a refresh that
\* the cache's own mark_node_failure would not have started
C25_Witness ==
    /\ mgr.use_cache
    /\ last.kind = "manager_mark"
    /\ last.marks = FailureLimit + 1
    /\ last.started
    /\ mgr.failure_count = 0
    /\ Healthy(cache.nodes) >= 2
    /\ cache.refresh_in_progress

\* C26: get_current_node has an outcome on every manager (it does not
\* raise); it returns a node and records it as current; on a cache-backed
\* manager the node is a record of the cache's list when the cache holds
\* one, and otherwise a node of the hardcoded list, held in the manager's
\* own list
C26_CurrentNodeReturned ==
    [][/\ mgr # NoManager => GetCurrentNode(mgr, cache, now) # {}
       /\ last'.kind = "current" =>
             /\ last'.node # NoNode
             /\ mgr'.current = last'.node
             /\ IF ~mgr.use_cache THEN last'.node \in Range(mgr.nodes)
                ELSE IF cache.nodes # <<>> THEN last'.node \in Range(cache.nodes)
                ELSE /\ last'.node \in Range(mgr'.nodes)
                     /\ \E n \in Range(FallbackNodes(0)) : NodeEq(n, last'.node)]_vars

\* get_current_node has just returned a node of the hardcoded list, the
\* cache holding nothing
C26_Witness ==
    /\ mgr.use_cache
    /\ cache.nodes = <<>>
    /\ Returned("current")
    /\ mgr.current = last.node
    /\ last.node \in Range(FallbackNodes(0))

\* C27: reset_to_random_node changes the manager's current node and nothing
\* else: the cache and its records, the snapshot, the manager's list and
\* its failure counter are as before, and no refresh is started
C27_ResetFrame ==
    [][last'.kind = "reset" =>
          /\ cache' = cache
          /\ cacheFile' = cacheFile
          /\ bg' = bg
          /\ mgr'.nodes = mgr.nodes
          /\ mgr'.failure_count = mgr.failure_count
          /\ mgr'.use_cache = mgr.use_cache
          /\ mgr'.current = last'.node]_vars

\* reset_to_random_node has just chosen a node on a cache-backed manager
\* that has counted failures and whose cache holds a marked record
C27_Witness ==
    /\ mgr.use_cache
    /\ Returned("reset")
    /\ mgr.current = last.node
    /\ mgr.failure_count > 0
    /\ \E i \in DOMAIN cache.nodes : cache.nodes[i].success_rate < RateFull

\* the urls of the directory that are probed
Candidates == Prefix(last.input.dir.clear, CandidateCap)

\* the candidates whose probe was answered with a JSON-RPC body
Survivors == {i \in DOMAIN Candidates : last.input.probes[i].kind = "rpc"}

\* the record of candidate i, as far as the weight goes
Probed(i) ==
    [url |-> JsonRpcUrl(Candidates[i]), response_time |-> last.input.probes[i].rt,
     success_rate |-> RateFull]

\* the candidates the cache's list holds
Installed ==
    {i \in Survivors : \E k \in DOMAIN cache.nodes :
        /\ cache.nodes[k].url = Probed(i).url
        /\ cache.nodes[k].response_time = Probed(i).response_time
        /\ cache.nodes[k].success_rate = Probed(i).success_rate}

\* C28: the list a discovery swap installs holds at most 10 records; each is
\* the record of a candidate that survived its probe, the candidates being
\* the first 20 urls of the directory; none is held twice; no survivor left
\* out is heavier than one installed, and as many are installed as the
\* survivors and the limit of 10 allow; the list is in descending order of
\* weight
C28_TopOfSurvivors ==
    (last.kind = "cycle" /\ last.how = "nodes") =>
       /\ Len(cache.nodes) <= TopK
       /\ Len(cache.nodes) = Cardinality(Installed)
       /\ Cardinality(Installed) = IF Cardinality(Survivors) < TopK
                                   THEN Cardinality(Survivors) ELSE TopK
       /\ \A i \in Survivors \ Installed :
             \A k \in DOMAIN cache.nodes : ~Heavier(Probed(i), cache.nodes[k])
       /\ \A j, k \in DOMAIN cache.nodes :
             j < k => ~Heavier(cache.nodes[k], cache.nodes[j])

\* a swap has installed 10 records out of more survivors, the directory
\* listing more than 20 urls
C28_Witness ==
    /\ last.kind = "cycle"
    /\ last.how = "nodes"
    /\ Len(last.input.dir.clear) > CandidateCap
    /\ Cardinality(Survivors) > TopK
    /\ Len(cache.nodes) = TopK

Quiescent == \A t \in Clients : conc.th[t].pc = "idle"

\* C31: when the calls of mark_node_failure made on a shared manager have
\* all returned, the failure counter is the number of calls modulo 4 and
\* _force_refresh was called once for every fourth call: no update is lost
\* and no forced refresh is missed or made twice
C31_SharedCounter ==
    Quiescent =>
       /\ mgr.failure_count = last.marks % (FailureLimit + 1)
       /\ last.forced = last.marks \div (FailureLimit + 1)

\* what identifies the manager's current node
CurrentId(m) ==
    IF m.current = NoNode THEN <<"None">>
    ELSE <<m.current.name, m.current.url, m.current.obj>>

\* a step of a call made with retry_on_other_nodes false, or without a node
\* manager, after a transport failure: the call raises after its one
\* attempt (with the error of line 791 when the body was not JSON, that of
\* line 852 otherwise), get_next_node is not begun, the current node stays and the
\* cache's records take one mark at most
SingleAttemptStep ==
    LET single == ~call.retry \/ ~tr.node_manager
    IN (single /\ call'.pc # call.pc) =>
          /\ (call.pc = "attempt" /\ call'.outcome \in FailureKinds \cup {"bad_json"}) =>
                /\ BagCardinality(call'.sent) = 1
                /\ call'.pc = IF tr.node_manager /\ call'.outcome # "bad_json"
                              THEN "mark_failure" ELSE "done"
                /\ call'.pc = "done" =>
                      call'.result = IF call'.outcome = "bad_json" THEN "invalid_json" ELSE "failed"
                /\ mgr' = mgr /\ cache' = cache
          /\ call.pc = "mark_failure" =>
                /\ call'.pc = "mark_count"
                /\ cache' = MarkFailureInCache(mgr, cache, ConfigUrl(tr.config)).c
                /\ CurrentId(mgr') = CurrentId(mgr)
          /\ call.pc = "mark_count" =>
                /\ call'.pc = "try_next"
                /\ cache'.nodes = cache.nodes
                /\ CurrentId(mgr') = CurrentId(mgr)
          /\ call.pc = "try_next" =>
                /\ call'.pc = "done"
                /\ call'.result = "failed"
                /\ mgr' = mgr /\ cache' = cache
          /\ call.pc \in {"mark_failure", "mark_count", "try_next"} =>
                /\ call'.sent = call.sent
                /\ tr' = tr
          /\ call.pc \notin {"next_pick", "reroll"}

\* C32: with retry_on_other_nodes false, or with no node manager, a
\* transport failure ends the call after exactly one attempt with
\* MCPTransportError (the terminal error of line 852 after a timeout, a
\* connection error, a non-2xx status or another request error; the error of
\* line 791 after a body that is not JSON); get_next_node is not called, the
\* manager's current node stays and no record is marked a second time
C32_TransportErrorAfterOneAttempt == [][SingleAttemptStep]_vars

\* a call made with retry_on_other_nodes false through a cache-backed
\* manager has raised the terminal error after one attempt and one mark
C32_Witness ==
    /\ call.pc = "done"
    /\ call.result = "failed"
    /\ ~call.retry
    /\ mgr.use_cache
    /\ BagCardinality(call.sent) = 1
    /\ \E i \in DOMAIN cache.nodes : cache.nodes[i].success_rate = Decay(RateFull)

----------------------------------------------------------------------------
\* Properties of the cache's mark_node_failure as a frame

\* the positions of the list whose record differs between c and d
Changed(c, d) == {i \in DOMAIN c.nodes : d.nodes[i] # c.nodes[i]}

\* the step is a call of the cache's mark_node_failure(last'.url): the list
\* keeps its length and its order, at most one record differs, that record
\* has the url of the argument and differs in success_rate only, the time of
\* the last refresh stays, and nothing differs when no record has the url
MarkFrameStep ==
    (last'.kind = "mark" /\ last'.marks = last.marks + 1) =>
        /\ DOMAIN cache'.nodes = DOMAIN cache.nodes
        /\ Cardinality(Changed(cache, cache')) <= 1
        /\ \A i \in Changed(cache, cache') :
              /\ cache.nodes[i].url = last'.url
              /\ cache'.nodes[i] = [cache.nodes[i] EXCEPT
                                       !.success_rate = cache'.nodes[i].success_rate]
        /\ cache'.last_refresh = cache.last_refresh
        /\ (\A i \in DOMAIN cache.nodes : cache.nodes[i].url # last'.url) =>
              cache'.nodes = cache.nodes

\* C33: the cache's mark_node_failure(url) changes the success_rate of at
\* most one record, one whose url is the argument, and leaves every other
\* record, every other field and the membership of the list unchanged; for
\* a url no record has it changes no record
C33_MarkFrame == [][MarkFrameStep]_vars

\* mark_node_failure has lowered the rate of the one record with the url,
\* beside two records it left alone
C33_Witness ==
    /\ last.kind = "mark"
    /\ last.prev > RateFloor
    /\ Len(cache.nodes) = 3
    /\ RateOf(cache.nodes, last.url) = Decay(last.prev)
    /\ RateOf(cache.nodes, last.url) < last.prev

\* mark_node_failure was called with a url no record has
C33_WitnessNoMatch ==
    /\ last.kind = "mark"
    /\ cache.nodes # <<>>
    /\ FirstWithUrl(cache.nodes, last.url) = 0

----------------------------------------------------------------------------
\* Properties of the probes of a refresh cycle

\* C34: a candidate whose probe raises or runs into its timeout is dropped
\* and the batch goes on: whenever the probe of at least one candidate was
\* answered with a JSON-RPC body, the cycle installs the candidates so
\* answered, up to 10 of them, and does not fall back
C34_SuccessfulProbesInstalled ==
    (last.kind = "cycle" /\ Survivors # {}) =>
       /\ last.how = "nodes"
       /\ Cardinality(Installed) = IF Cardinality(Survivors) < TopK
                                   THEN Cardinality(Survivors) ELSE TopK

\* the success_rate _test_node_performance derives for candidate i (0: the
\* probe failed and there is no record)
DerivedRate(i) ==
    LET n == TestNodePerformance(Candidates[i], last.input.probes[i], 0, 0)
    IN IF n = NoNode THEN 0 ELSE n.success_rate

\* the candidates the statement keeps: probed, with a rate not below 0.3
Eligible == {i \in DOMAIN Candidates : DerivedRate(i) >= RateProbeWeak}

\* candidate i has a record in the cache's list
Kept(i) ==
    \E k \in DOMAIN cache.nodes :
        /\ cache.nodes[k].url = JsonRpcUrl(Candidates[i])
        /\ cache.nodes[k].success_rate = DerivedRate(i)

\* C35: a probed candidate is discarded exactly when its probe failed or its
\* derived success_rate is below 0.3: after a cycle that probed candidates,
\* no candidate of a failed probe is in the list, and when the others are
\* no more than 10 every one of them is
C35_DiscardedExactlyBelowThreshold ==
    (last.kind = "cycle" /\ Candidates # <<>>) =>
       /\ \A i \in DOMAIN Candidates \ Eligible : ~Kept(i)
       /\ Cardinality(Eligible) <= TopK => \A i \in Eligible : Kept(i)

----------------------------------------------------------------------------
\* Properties of the GET of get_height

\* the step is an attempt of get_height whose GET failed
RestFailed ==
    /\ call.pc = "attempt"
    /\ call'.pc # "attempt"
    /\ call.method = "get_height"
    /\ call'.rest.result = "failed"

\* C36: every failure of the GET of get_height (a request error, a timeout,
\* a status that is not 2xx, a body that is not JSON) is followed in the same
\* attempt by the JSON-RPC POST to the same endpoint, the GET having gone to
\* /getheight of it; the call goes on as the POST alone decides, and the
\* failed GET marks no node, switches no node and raises nothing
C36_RestFailureFallsThrough ==
    [][RestFailed =>
          /\ call'.outcome \in PostResults
          /\ call'.rest.url = [ConfigUrl(tr.config) EXCEPT !.path = "/getheight"]
          /\ call'.sent = call.sent (+) SetToBag({ConfigUrl(tr.config)})
          /\ tr'.config = tr.config
          /\ call'.tried = call.tried \cup {call.name}
          /\ mgr' = mgr /\ cache' = cache
          /\ call'.pc = AfterPost(call'.outcome, tr.node_manager).pc
          /\ call'.result = AfterPost(call'.outcome, tr.node_manager).result]_vars

\* a get_height whose GET failed has returned what the POST of the same
\* attempt answered
C36_Witness ==
    /\ call.pc = "done"
    /\ call.method = "get_height"
    /\ call.rest.result = "failed"
    /\ call.rest.url.path = "/getheight"
    /\ call.outcome = "ok"
    /\ call.result = "ok"
    /\ BagCardinality(call.sent) = 1

\* the GET failed and the POST of the same attempt timed out
C36_WitnessBoth ==
    /\ call.pc = "mark_failure"
    /\ call.method = "get_height"
    /\ call.rest.result = "failed"
    /\ call.outcome = "timeout"

----------------------------------------------------------------------------
\* Properties of get_random_node and of the size of the list

\* C37: the weight success_rate / max(response_time, 0.1) of every record
\* the cache holds is above zero, also for a response_time of 0, so that on
\* a list that is not empty every record is a possible result of
\* get_random_node; and what get_random_node returned from such a list is
\* one of the cache's records, the list being left as it was
C37_RandomNodeIsMember ==
    /\ \A i \in DOMAIN cache.nodes :
          /\ WeightDen(cache.nodes[i]) > 0
          /\ WeightNum(cache.nodes[i]) > 0
    /\ cache.nodes # <<>> => RandomNodeChoices(cache) = Range(cache.nodes)
    /\ (last.kind = "random" /\ ~last.empty) =>
          /\ last.node \in Range(cache.nodes)
          /\ ~last.started

\* get_random_node has returned a record whose response_time is 0 and whose
\* success_rate a mark had lowered, from a list of three
C37_Witness ==
    /\ last.kind = "random"
    /\ ~last.empty
    /\ Len(cache.nodes) = 3
    /\ last.node.response_time = 0
    /\ last.node.success_rate < RateFull
    /\ \E i \in DOMAIN cache.nodes : cache.nodes[i] # last.node

\* C38: once the cache's list holds a record it is never empty again: no
\* swap of a refresh cycle, no load of the snapshot or of the hardcoded list
\* and no mark_node_failure, in whatever order the threads run, takes a list
\* that is not empty to an empty one
C38_NeverEmptyAgain == [][cache.nodes # <<>> => cache'.nodes # <<>>]_vars

\* two refresh threads have run to their end beside the clients and the
\* list, installed more than once, holds records
C38_Witness ==
    /\ conc.spawned >= 2
    /\ conc.rf = {}
    /\ conc.ops >= 1
    /\ cache.nodes # <<>>
    /\ \E i \in DOMAIN cache.nodes : cache.nodes[i].obj >= 2

----------------------------------------------------------------------------
\* Properties of the cache's lock

\* a thread holds the cache's lock
LockHeld == conc.lock # NoHolder

\* a refresh thread is at with self._lock: and has not entered
RefreshWaits == \E r \in conc.rf : r.pc \in {"swap", "fallback"}

\* C39: no interleaving of get_random_node, get_all_nodes,
\* mark_node_failure, the manager's forced refresh and the refresh threads
\* deadlocks: the lock, once taken, is released; a client that began an
\* operation ends it; a refresh thread that waits for the lock enters its
\* block; and the thread that leaves a with block is the one that held the
\* lock, which nobody else had taken meanwhile
C39_LockAlwaysReleased ==
    /\ LockHeld ~> ~LockHeld
    /\ \A t \in Clients : (conc.th[t].pc # "idle") ~> (conc.th[t].pc = "idle")
    /\ RefreshWaits ~> ~RefreshWaits
    /\ [][(LockHeld /\ conc'.lock # conc.lock) => conc'.lock = NoHolder]_vars

\* a client holds the lock inside mark_node_failure while a refresh thread
\* waits to install its list
C39_Witness ==
    /\ conc.lock.kind = "client"
    /\ conc.th[conc.lock.id].pc = "mark"
    /\ \E r \in conc.rf : r.pc = "swap"

----------------------------------------------------------------------------
\* Properties of the endpoint URL of a node record

\* the step is the cache's part of mark_node_failure(self.config.url) in a
\* call through a cache-backed manager
EndpointMarked ==
    /\ call.pc = "mark_failure"
    /\ call'.pc = "mark_count"
    /\ mgr.use_cache

\* C40: the endpoint URL the transport derives from a node record,
\* to_rpc_config().url, is the record's url, with or without a port in it,
\* so that the mark keyed by the endpoint URL of a failed attempt finds the
\* record the endpoint came from and lowers its success_rate
C40_EndpointUrlFindsRecord ==
    [][EndpointMarked =>
          \A i \in DOMAIN cache.nodes :
             ToRpcConfig(cache.nodes[i]) = tr.config =>
                /\ ConfigUrl(ToRpcConfig(cache.nodes[i])) = cache.nodes[i].url
                /\ cache'.nodes[i].success_rate = Decay(cache.nodes[i].success_rate)]_vars

====
